---- MODULE Spec2Model ----
(***************************************************************************)
(* A model of mark_lang: the creative-brief extractor, the campaign        *)
(* workflow, the chunking translator, the Brand Center client, the         *)
(* document processor, the brand guidelines extractor, the document        *)
(* ingestion workflow and the brief ingestor.                              *)
(*                                                                         *)
(* Text is a sequence of characters, each character a one-element string   *)
(* ("a", ":", " ", "\n").  "I_DOT" stands for U+0130 (capital I with dot   *)
(* above), whose str.lower() is the two code points "i" + "DOT_ABOVE".     *)
(* Indices into text are 0-based, as in Python.                            *)
(***************************************************************************)
EXTENDS Integers, Sequences, FiniteSets, TLC

VARIABLES
    \* ---- creative-brief extractor (creative_brief.py)
    br_in,          \* how the brief text was assembled (reference for the claims)
    br_brief,       \* the BusinessBrief handed to extract
    br_pc,          \* "start" | "extracted" | "gaps"
    br_creative,    \* the CreativeBrief returned by extract, or None
    br_gaps,        \* the mapping returned by detect_gaps, or None
    \* ---- campaign workflow (workflows/creative_campaign.py)
    wf_in,          \* the arguments of run and the environment of the run
    wf_pc,          \* "start" | "built" | "running" | "returned" | "raised"
    wf_node,        \* node_name of the runner loop
    wf_state,       \* the WorkflowState mapping threaded through the nodes
    wf_trace,       \* the nodes whose function was called, in call order
    wf_fetched,     \* the brand ids fetch_guidelines was called with
    wf_error,       \* the error run raised, or None
    wf_result,      \* the WorkflowStateData run returned, or None
    \* ---- translator (translator.py)
    tr_in,          \* the text given to translate and the backend's behaviour
    tr_pc,          \* "start" | "paras" | "sents" | "done" | "raised"
    tr_paragraphs,  \* _translate_chunks: paragraphs
    tr_pi,          \* _translate_chunks: position of the paragraph loop (1-based)
    tr_current,     \* _translate_chunks: current_chunk
    tr_out,         \* _translate_chunks: translated_paragraphs
    tr_sentences,   \* _translate_long_paragraph: sentences
    tr_si,          \* _translate_long_paragraph: i of the loop (1-based)
    tr_scur,        \* _translate_long_paragraph: current_chunk
    tr_sout,        \* _translate_long_paragraph: translated_sentences
    tr_calls,       \* the calls made to the backend so far, in order
    tr_result,      \* what translate returned, or Nil
    \* ---- Brand Centre client (brand_center/api_client.py)
    ap_in,          \* the client's session, the brand id and the server's answer
    ap_pc,          \* "start" | "responded" | "validated" | "returned" | "raised"
    ap_request,     \* the request handed to the session, or None
    ap_response,    \* the response the session returned, or None
    ap_error,       \* the error fetch_guidelines raised, or None
    ap_result,      \* the BrandGuidelines fetch_guidelines returned, or None
    \* ---- document processor (document_processor.py)
    dp_in,          \* the call: process_file or process_directory, and the files
    dp_pc,          \* "start" | "listing" | "returned" | "raised"
    dp_i,           \* process_directory: position in the listing (1-based)
    dp_results,     \* process_directory: results
    dp_calls,       \* the calls of process_file so far, in order
    dp_result,      \* the record process_file returned, or None
    dp_error,       \* the error raised, or Nil
    \* ---- guideline extractor (brand_guidelines_extractor.py)
    ge_in,          \* the documents handed to extract_from_documents
    ge_pc,          \* "start" | "combined" | "returned"
    ge_all_text,    \* extract_from_documents: all_text
    ge_guidelines,  \* extract_from_documents: guidelines, or None
    \* ---- document ingestion (ingest_brand_documents.py)
    ig_in,          \* the files handed to process_files, and how translation goes
    ig_pc,          \* "start" | "parsing" | "translating" | "extracting" | "returned"
    ig_i,           \* position of the running loop (1-based)
    ig_documents,   \* process_files: documents
    ig_translated,  \* process_files: translated_docs
    ig_log,         \* the failures printed so far, in order
    ig_extracted,   \* the documents handed to extract_from_documents, or None
    ig_result,      \* the mapping process_files returned, or None
    \* ---- brief ingestor (brief_ingest.py)
    bi_in,          \* the call: from_text or from_path, and its arguments
    bi_pc,          \* "start" | "returned" | "raised"
    bi_brief,       \* the BusinessBrief returned, or None
    bi_error        \* the error raised, or Nil

brVars == <<br_in, br_brief, br_pc, br_creative, br_gaps>>
wfVars == <<wf_in, wf_pc, wf_node, wf_state, wf_trace, wf_fetched, wf_error,
            wf_result>>

trVars == <<tr_in, tr_pc, tr_paragraphs, tr_pi, tr_current, tr_out, tr_sentences,
            tr_si, tr_scur, tr_sout, tr_calls, tr_result>>

apVars == <<ap_in, ap_pc, ap_request, ap_response, ap_error, ap_result>>

dpVars == <<dp_in, dp_pc, dp_i, dp_results, dp_calls, dp_result, dp_error>>

geVars == <<ge_in, ge_pc, ge_all_text, ge_guidelines>>

igVars == <<ig_in, ig_pc, ig_i, ig_documents, ig_translated, ig_log, ig_extracted,
            ig_result>>

biVars == <<bi_in, bi_pc, bi_brief, bi_error>>

\* the components added to the first three
exVars == <<apVars, dpVars, geVars, igVars, biVars>>

\* the first three components
coreVars == <<brVars, wfVars, trVars>>

\* what the actions of one component leave alone
apRest == <<coreVars, dpVars, geVars, igVars, biVars>>
dpRest == <<coreVars, apVars, geVars, igVars, biVars>>
geRest == <<coreVars, apVars, dpVars, igVars, biVars>>
igRest == <<coreVars, apVars, dpVars, geVars, biVars>>
biRest == <<coreVars, apVars, dpVars, geVars, igVars>>

vars == <<coreVars, exVars>>

\* Python's None, where a record or a mapping may stand, and where a string may
None == [none |-> TRUE]
Nil == "None"

(***************************************************************************)
(* Python string primitives                                                *)
(***************************************************************************)
Min(a, b) == IF a < b THEN a ELSE b

\* s[a:b] for 0 <= a, 0 <= b (the end is clamped to len(s))
Slice(s, a, b) == SubSeq(s, a + 1, Min(b, Len(s)))

\* the characters str.lower() changes, among those the model uses
LowerMap ==
    [A |-> <<"a">>, B |-> <<"b">>, C |-> <<"c">>, D |-> <<"d">>,
     E |-> <<"e">>, F |-> <<"f">>, G |-> <<"g">>, H |-> <<"h">>,
     I |-> <<"i">>, J |-> <<"j">>, K |-> <<"k">>, L |-> <<"l">>,
     M |-> <<"m">>, N |-> <<"n">>, O |-> <<"o">>, P |-> <<"p">>,
     Q |-> <<"q">>, R |-> <<"r">>, S |-> <<"s">>, T |-> <<"t">>,
     U |-> <<"u">>, V |-> <<"v">>, W |-> <<"w">>, X |-> <<"x">>,
     Y |-> <<"y">>, Z |-> <<"z">>, I_DOT |-> <<"i", "DOT_ABOVE">>]

\* str.lower() of one character: a sequence, because U+0130 becomes two
LowerChar(c) == IF c \in DOMAIN LowerMap THEN LowerMap[c] ELSE <<c>>

RECURSIVE Lower(_)
\* str.lower(): the lowered characters put together, half by half
Lower(s) ==
    IF s = <<>> THEN <<>>
    ELSE IF Len(s) = 1 THEN LowerChar(s[1])
    ELSE Lower(SubSeq(s, 1, Len(s) \div 2)) \o Lower(SubSeq(s, Len(s) \div 2 + 1, Len(s)))

\* str.find(sub, start): the lowest index >= start where sub occurs, or -1
Find(s, sub, start) ==
    LET hits == {i \in start .. (Len(s) - Len(sub)) :
                    SubSeq(s, i + 1, i + Len(sub)) = sub}
    IN  IF hits = {} THEN -1 ELSE CHOOSE i \in hits : \A j \in hits : i <= j

\* sub in s
IsSubstring(sub, s) == Find(s, sub, 0) # -1

Whitespace == {" ", "\n"}

\* str.strip(): leading and trailing whitespace removed
Strip(s) ==
    LET keep == {i \in 1 .. Len(s) : s[i] \notin Whitespace}
    IN  IF keep = {} THEN <<>>
        ELSE SubSeq(s, CHOOSE i \in keep : \A j \in keep : i <= j,
                       CHOOSE i \in keep : \A j \in keep : i >= j)

\* str.rstrip("\n")
RECURSIVE RStripNewline(_)
RStripNewline(s) ==
    IF s # <<>> /\ s[Len(s)] = "\n" THEN RStripNewline(SubSeq(s, 1, Len(s) - 1))
    ELSE s

(***************************************************************************)
(* creative_brief.py                                                       *)
(***************************************************************************)
\* the keys of DEFAULT_VALUES, in insertion order
FieldOrder == <<"goals", "audience", "messaging", "timeframe">>
Fields == {FieldOrder[i] : i \in 1 .. Len(FieldOrder)}

FieldChars ==
    [goals     |-> <<"g","o","a","l","s">>,
     audience  |-> <<"a","u","d","i","e","n","c","e">>,
     messaging |-> <<"m","e","s","s","a","g","i","n","g">>,
     timeframe |-> <<"t","i","m","e","f","r","a","m","e">>]

\* marker = f"{field}:"
Marker(field) == FieldChars[field] \o <<":">>

\* DEFAULT_VALUES: each default is a fixed non-empty sentence, kept as one
\* opaque word (no brief in the model spells a default out letter by letter)
DEFAULT_VALUES ==
    [goals     |-> <<"Increase brand awareness and generate qualified leads.">>,
     audience  |-> <<"Primary decision makers within the target industry vertical.">>,
     messaging |-> <<"Highlight value proposition, proof points, and call-to-action.">>,
     timeframe |-> <<"Launch within the next fiscal quarter with bi-weekly reporting.">>]

\* _find_section_end: the nearest marker at or after start_index, else len
FindSectionEnd(normalized, start_index) ==
    LET next_indices == {Find(normalized, Marker(f), start_index) : f \in Fields}
        candidates   == next_indices \ {-1}
    IN  IF candidates # {}
        THEN CHOOSE i \in candidates : \A j \in candidates : i <= j
        ELSE Len(normalized)

\* _segment_sections: positions are found in the lower-cased copy and the
\* text is sliced out of the original
SegmentSections(content) ==
    LET normalized == Lower(content)
        found      == {f \in Fields : Find(normalized, Marker(f), 0) # -1}
    IN  [f \in found |->
            LET start_index == Find(normalized, Marker(f), 0) + Len(Marker(f))
                end_index   == FindSectionEnd(normalized, start_index)
            IN  RStripNewline(Strip(Slice(content, start_index, end_index)))]

\* mutant: sections.get(field, "") -- a missing section yields no default
ResolveValue_NoDefault(field, sections) ==
    IF field \in DOMAIN sections THEN sections[field] ELSE <<>>

\* _resolve_value: sections.get(field, self.defaults[field])
ResolveValue(field, sections) ==
    IF field \in DOMAIN sections THEN sections[field] ELSE DEFAULT_VALUES[field]

\* extract
Extract(brief) ==
    LET sections == SegmentSections(brief.content)
    IN  [goals        |-> ResolveValue("goals", sections),
         audience     |-> ResolveValue("audience", sections),
         messaging    |-> ResolveValue("messaging", sections),
         timeframe    |-> ResolveValue("timeframe", sections),
         source_title |-> brief.title]

\* the prompt detect_gaps emits for a field
GapPrompt(field, title) == <<"Please provide specific ", field, " details for '", title, "'">>

\* detect_gaps: a prompt for every field whose value equals its default
DetectGaps(creative_brief) ==
    [f \in {g \in Fields : creative_brief[g] = DEFAULT_VALUES[g]} |->
        GapPrompt(f, creative_brief.source_title)]

(***************************************************************************)
(* Brief texts the extractor is run on: an optional preamble, then labeled *)
(* sections (distinct fields, in any order, each label in one letter case) *)
(* and an optional trailing repeat of a label.                             *)
(***************************************************************************)
UpperMap ==
    [a |-> "A", b |-> "B", c |-> "C", d |-> "D", e |-> "E", f |-> "F",
     g |-> "G", h |-> "H", i |-> "I", j |-> "J", k |-> "K", l |-> "L",
     m |-> "M", n |-> "N", o |-> "O", p |-> "P", q |-> "Q", r |-> "R",
     s |-> "S", t |-> "T", u |-> "U", v |-> "V", w |-> "W", x |-> "X",
     y |-> "Y", z |-> "Z"]

\* a label as written in the brief: "goals:" or "Goals:"
Label(field, case) ==
    IF case = "lower" THEN Marker(field)
    ELSE <<UpperMap[Head(Marker(field))]>> \o Tail(Marker(field))

Cases == {"lower", "Title"}

Bodies ==
    { <<>>,
      <<" ", "X", "y", "\n">>,
      <<" ", "I_DOT", "z", "\n">>,
      <<" ">> \o DEFAULT_VALUES["goals"] }

Preambles == { <<>>, <<"x", "\n">> }

Trailers == { <<>>, Marker("goals") }

\* sequences of sections over pairwise distinct fields
RECURSIVE SectionSeqs(_)
SectionSeqs(fields) ==
    {<<>>} \cup
    UNION {{<<[field |-> f, body |-> b]>> \o rest :
               b \in Bodies, rest \in SectionSeqs(fields \ {f})} : f \in fields}

RECURSIVE SectionsText(_, _)
SectionsText(secs, case) ==
    IF secs = <<>> THEN <<>>
    ELSE Label(Head(secs).field, case) \o Head(secs).body
            \o SectionsText(Tail(secs), case)

BriefText(in) == in.preamble \o SectionsText(in.secs, in.case) \o in.trailer

BriefInputs ==
    [preamble : Preambles, secs : SectionSeqs(Fields), case : Cases,
     trailer : Trailers]

BriefTitle == <<"L", "a", "u", "n", "c", "h">>

\* BusinessBrief(title=..., content=...)
BusinessBrief(title, content, source, tags) ==
    [title |-> title, content |-> content, source |-> source, tags |-> tags]

\* the extractor is not run
BrIdle ==
    /\ br_in = None /\ br_brief = None /\ br_pc = "idle"
    /\ br_creative = None /\ br_gaps = None

BrInit ==
    /\ br_in \in BriefInputs
    /\ br_brief = BusinessBrief(BriefTitle, BriefText(br_in), Nil, <<>>)
    /\ br_pc = "start"
    /\ br_creative = None
    /\ br_gaps = None

\* creative = extractor.extract(brief)
BrExtract ==
    /\ br_pc = "start"
    /\ br_creative' = Extract(br_brief)
    /\ br_pc' = "extracted"
    /\ UNCHANGED <<br_in, br_brief, br_gaps, wfVars, trVars, exVars>>

\* prompts = extractor.detect_gaps(creative)
BrDetectGaps ==
    /\ br_pc = "extracted"
    /\ br_gaps' = DetectGaps(br_creative)
    /\ br_pc' = "gaps"
    /\ UNCHANGED <<br_in, br_brief, br_creative, wfVars, trVars, exVars>>

BrNext == BrExtract \/ BrDetectGaps

(***************************************************************************)
(* brief_ingest.py                                                         *)
(***************************************************************************)
\* text.split("\n") -- the lines of a text
RECURSIVE SplitLines(_)
SplitLines(s) ==
    LET nl == Find(s, <<"\n">>, 0)
    IN  IF nl = -1 THEN <<s>>
        ELSE <<Slice(s, 0, nl)>> \o SplitLines(Slice(s, nl + 1, Len(s)))

TitleMax == 80
DefaultTitle == <<"Untitled Brief">>

\* mutant: the first line is kept at its full length
DeriveTitle_Uncut(text) ==
    LET lines    == SplitLines(text)
        nonblank == {i \in 1 .. Len(lines) : Strip(lines[i]) # <<>>}
    IN  IF nonblank # {}
        THEN Strip(lines[CHOOSE i \in nonblank : \A j \in nonblank : i <= j])
        ELSE DefaultTitle

\* _derive_title(text): the first non-blank line, stripped, cut to 80 chars
DeriveTitle(text) ==
    LET lines    == SplitLines(text)
        nonblank == {i \in 1 .. Len(lines) : Strip(lines[i]) # <<>>}
    IN  IF nonblank # {}
        THEN Slice(Strip(lines[CHOOSE i \in nonblank : \A j \in nonblank : i <= j]),
                   0, TitleMax)
        ELSE DefaultTitle

\* BriefIngestor.from_text(text, title=title)
FromText(text, title) ==
    BusinessBrief(IF title # <<>> THEN title ELSE DeriveTitle(text),
                  Strip(text), "inline", <<>>)

(***************************************************************************)
(* workflows/creative_campaign.py                                          *)
(***************************************************************************)
END == "__end__"

\* Python dict assignment d[k] = v
DictSet(d, k, v) == [x \in DOMAIN d \cup {k} |-> IF x = k THEN v ELSE d[x]]

\* d.get(k), with None for a missing key
DictGet(d, k) == IF k \in DOMAIN d THEN d[k] ELSE None

\* StateGraph.__init__
NewGraph == [nodes |-> <<>>, entry |-> Nil]

\* StateGraph.add_node
AddNode(graph, name) ==
    [graph EXCEPT !.nodes = DictSet(graph.nodes, name, [func |-> name, edges |-> <<>>])]

\* StateGraph.add_edge
AddEdge(graph, src, dest) ==
    [graph EXCEPT !.nodes[src].edges = Append(@, dest)]

\* StateGraph.set_entry_point
SetEntryPoint(graph, name) == [graph EXCEPT !.entry = name]

\* mutant: the edge out of extract skips fetch_guidelines
Build_SkipsFetch ==
    LET g1 == AddNode(AddNode(AddNode(AddNode(AddNode(NewGraph,
                "ingest"), "extract"), "fetch_guidelines"), "campaign"), "final")
        g2 == AddEdge(AddEdge(AddEdge(AddEdge(AddEdge(g1,
                "ingest", "extract"), "extract", "campaign"),
                "fetch_guidelines", "campaign"), "campaign", "final"), "final", END)
    IN  SetEntryPoint(g2, "ingest")

\* CreativeCampaignWorkflow.build: five nodes, five edges, entry ingest
Build ==
    LET g1 == AddNode(AddNode(AddNode(AddNode(AddNode(NewGraph,
                "ingest"), "extract"), "fetch_guidelines"), "campaign"), "final")
        g2 == AddEdge(AddEdge(AddEdge(AddEdge(AddEdge(g1,
                "ingest", "extract"), "extract", "fetch_guidelines"),
                "fetch_guidelines", "campaign"), "campaign", "final"), "final", END)
    IN  SetEntryPoint(g2, "ingest")

\* BrandGuidelines(tone_of_voice=..., visual_style=..., compliance_notes=...)
BrandGuidelines(tone_of_voice, visual_style, compliance_notes) ==
    [tone_of_voice    |-> tone_of_voice,
     visual_style     |-> visual_style,
     compliance_notes |-> compliance_notes]

\* the guidelines the stub connector of the workflow test returns
StubGuidelines ==
    BrandGuidelines(<<"Insightful">>, <<"Minimalist">>,
                    <<"Archive all campaign assets for 7 years">>)

\* the guidelines map a LocalBrandCenterClient is built with: one entry per
\* known brand
LocalGuidelinesMap ==
    [dnb  |-> StubGuidelines,
     acme |-> BrandGuidelines(<<"Friendly">>, <<"Bold">>, <<"GDPR compliant">>)]

\* LocalBrandCenterClient.fetch_guidelines: the entry of the brand, else the
\* built-in payload
FetchGuidelines(brand_id) ==
    IF brand_id \in DOMAIN LocalGuidelinesMap THEN LocalGuidelinesMap[brand_id]
    ELSE BrandGuidelines(<<"Professional and trustworthy">>,
                         <<"Corporate, clean, minimal">>,
                         <<"Ensure alignment with DNB data privacy policies.">>)

\* CreativeBrief.to_dict: a mapping with one key per field
ToDict(creative_brief) ==
    [k \in {"goals", "audience", "messaging", "timeframe", "source_title"} |->
        creative_brief[k]]

\* mutant: the email message is the messaging alone, without the tone
BuildPlan_NoTone(creative_brief, guidelines) ==
    [summary  |-> ToDict(creative_brief),
     channels |->
        << [channel  |-> "email",
            message  |-> creative_brief.messaging,
            timeline |-> creative_brief.timeframe],
           [channel      |-> "social",
            message      |-> <<"Snackable content mirroring '">>
                                \o creative_brief.goals \o <<"'">>,
            visual_style |-> guidelines.visual_style],
           [channel    |-> "web",
            message    |-> <<"Landing page focused on lead capture">>,
            compliance |-> guidelines.compliance_notes] >>]

\* _build_plan
BuildPlan(creative_brief, guidelines) ==
    [summary  |-> ToDict(creative_brief),
     channels |->
        << [channel  |-> "email",
            message  |-> creative_brief.messaging \o <<" | Tone: ">>
                            \o guidelines.tone_of_voice,
            timeline |-> creative_brief.timeframe],
           [channel      |-> "social",
            message      |-> <<"Snackable content mirroring '">>
                                \o creative_brief.goals \o <<"'">>,
            visual_style |-> guidelines.visual_style],
           [channel    |-> "web",
            message    |-> <<"Landing page focused on lead capture">>,
            compliance |-> guidelines.compliance_notes] >>]

\* what a node function does: it returns the next state or raises
Returns(state) == [raised |-> FALSE, state |-> state]
Raises(error)  == [raised |-> TRUE, error |-> error]

\* _ingest
IngestNode(state) == Returns(state)

\* _extract
ExtractNode(state, fails) ==
    IF fails THEN Raises("ExtractionError")
    ELSE LET creative_brief == Extract(state["brief"])
             gaps           == DetectGaps(creative_brief)
         IN  Returns(DictSet(DictSet(state, "creative_brief", creative_brief),
                             "gaps", gaps))

\* mutant: the first tag of the brief wins over the explicit brand id
ResolveBrandId_TagsFirst(state) ==
    IF state["brief"].tags # <<>> THEN state["brief"].tags[1]
    ELSE IF "brand_id" \in DOMAIN state /\ state["brand_id"] # "" THEN state["brand_id"]
    ELSE "default"

\* the brand id _guidelines passes to the connector:
\* state.get("brand_id") or (brief.tags[0] if brief.tags else "default")
ResolveBrandId(state) ==
    IF "brand_id" \in DOMAIN state /\ state["brand_id"] # "" THEN state["brand_id"]
    ELSE IF state["brief"].tags # <<>> THEN state["brief"].tags[1]
    ELSE "default"

\* mutant: the node writes the brand id it resolved back into the state
GuidelinesNode_StoresBrandId(state, fails) ==
    IF fails THEN Raises("BrandCenterError")
    ELSE Returns(DictSet(DictSet(state, "brand_id", ResolveBrandId(state)),
                         "guidelines", FetchGuidelines(ResolveBrandId(state))))

\* mutant: the node catches the connector's error and hands the state on
GuidelinesNode_Swallows(state, fails) ==
    IF fails THEN Returns(state)
    ELSE Returns(DictSet(state, "guidelines", FetchGuidelines(ResolveBrandId(state))))

\* _guidelines
GuidelinesNode(state, fails) ==
    IF fails THEN Raises("BrandCenterError")
    ELSE Returns(DictSet(state, "guidelines", FetchGuidelines(ResolveBrandId(state))))

\* mutant: the campaign node returns the state without storing the plan
CampaignNode_NoPlan(state, fails) ==
    IF fails THEN Raises("PlanError") ELSE Returns(state)

\* _campaign (state["creative_brief"] and state["guidelines"] raise KeyError
\* when the key was never set)
CampaignNode(state, fails) ==
    IF {"creative_brief", "guidelines"} \ DOMAIN state # {} THEN Raises("KeyError")
    ELSE IF fails THEN Raises("PlanError")
    ELSE Returns(DictSet(state, "campaign_plan",
                         BuildPlan(state["creative_brief"], state["guidelines"])))

\* _finalize
FinalizeNode(state) == Returns(state)

\* node["func"](state)
NodeFunc(func, state, failAt) ==
    CASE func = "ingest"           -> IngestNode(state)
      [] func = "extract"          -> ExtractNode(state, failAt = "extract")
      [] func = "fetch_guidelines" -> GuidelinesNode(state, failAt = "fetch_guidelines")
      [] func = "campaign"         -> CampaignNode(state, failAt = "campaign")
      [] func = "final"            -> FinalizeNode(state)

\* the runner's choice of the next node: the first edge, else END
NextNode(node) == IF node.edges # <<>> THEN node.edges[1] ELSE END

\* WorkflowStateData(brief=result["brief"], ..., gaps=result.get("gaps", {}))
WorkflowStateData(result) ==
    [brief          |-> result["brief"],
     brand_id       |-> result["brand_id"],
     creative_brief |-> DictGet(result, "creative_brief"),
     guidelines     |-> DictGet(result, "guidelines"),
     campaign_plan  |-> DictGet(result, "campaign_plan"),
     gaps           |-> IF "gaps" \in DOMAIN result THEN result["gaps"] ELSE <<>>]

\* the brief texts the workflow is run on: labeled sections in any order
WfBriefTexts ==
    {BriefText([preamble |-> <<>>, secs |-> secs, case |-> "Title", trailer |-> <<>>]) :
        secs \in {q \in SectionSeqs(Fields) :
                    \A i \in 1 .. Len(q) : q[i].body = <<" ", "X", "y", "\n">>}}

WfTitles == { <<>>, <<"Strategic push">> }
WfBrandIds == { "", "dnb" }
\* which StateGraph the module imported: langgraph's, or the stand-in class
WfLibs == { "langgraph", "fallback" }
\* the collaborator call that raises during the run, if any
WfFailures == { Nil, "extract", "fetch_guidelines", "campaign" }

\* the workflow is not run
WfIdle ==
    /\ wf_in = None /\ wf_pc = "idle" /\ wf_node = Nil /\ wf_state = None
    /\ wf_trace = <<>> /\ wf_fetched = <<>> /\ wf_error = Nil /\ wf_result = None

\* the tags of a brief built by a caller of the compiled graph
WfTagLists == { <<>>, <<"acme", "zeta">> }

\* run(brief_text, title=..., brand_id=...): from_text is called without tags
WfRunInputs ==
    [brief_text : WfBriefTexts, title : WfTitles, brand_id : WfBrandIds,
     tags : {<<>>}, lib : WfLibs, failAt : WfFailures, entry : {"run"}]

\* build() handed to a caller who invokes the compiled graph on a state of
\* their own: the brief may carry tags, and the brand_id key may be missing
\* (WorkflowState is a TypedDict with total=False)
WfGraphInputs ==
    [brief_text : {<<>>, <<"G", "o", "a", "l", "s", ":", " ", "X", "y">>},
     title : {<<"Strategic push">>}, brand_id : WfBrandIds \cup {Nil},
     tags : WfTagLists, lib : WfLibs, failAt : WfFailures, entry : {"graph"}]

WfInit ==
    /\ wf_in \in WfRunInputs \cup WfGraphInputs
    /\ wf_pc = "start"
    /\ wf_node = Nil
    /\ wf_state = None
    /\ wf_trace = <<>>
    /\ wf_fetched = <<>>
    /\ wf_error = Nil
    /\ wf_result = None

\* run, up to the call of the compiled graph: build, from_text, initial_state
WfBuild ==
    /\ wf_pc = "start"
    /\ wf_in.entry = "run"
    /\ wf_state' = [brief    |-> FromText(wf_in.brief_text, wf_in.title),
                    brand_id |-> wf_in.brand_id,
                    gaps     |-> <<>>]
    /\ wf_pc' = "built"
    /\ UNCHANGED <<wf_in, wf_node, wf_trace, wf_fetched, wf_error, wf_result, brVars, trVars, exVars>>

\* result = runner.invoke(initial_state): langgraph's compiled graph starts at
\* the entry point; the stand-in's compile() returned a plain function, which
\* has no attribute invoke
WfInvoke ==
    /\ wf_pc = "built"
    /\ IF wf_in.lib = "fallback"
       THEN /\ wf_pc' = "raised"
            /\ wf_error' = "AttributeError"
            /\ UNCHANGED wf_node
       ELSE /\ wf_pc' = "running"
            /\ wf_node' = Build.entry
            /\ UNCHANGED wf_error
    /\ UNCHANGED <<wf_in, wf_state, wf_trace, wf_fetched, wf_result, brVars, trVars, exVars>>

\* one turn of the runner loop: call the node's function, follow its first edge
WfRunnerStep ==
    /\ wf_pc = "running"
    /\ wf_node \notin {Nil, END}
    /\ LET node == Build.nodes[wf_node]
           out  == NodeFunc(node.func, wf_state, wf_in.failAt)
       IN  /\ wf_trace' = Append(wf_trace, wf_node)
           /\ wf_fetched' = IF node.func = "fetch_guidelines"
                            THEN Append(wf_fetched, ResolveBrandId(wf_state))
                            ELSE wf_fetched
           /\ IF out.raised
              THEN /\ wf_pc' = "raised"
                   /\ wf_error' = out.error
                   /\ UNCHANGED <<wf_state, wf_node>>
              ELSE /\ wf_state' = out.state
                   /\ wf_node' = NextNode(node)
                   /\ UNCHANGED <<wf_pc, wf_error>>
    /\ UNCHANGED <<wf_in, wf_result, brVars, trVars, exVars>>

\* the loop ends at END and run wraps the final state
WfReturn ==
    /\ wf_pc = "running"
    /\ wf_node = END
    /\ wf_in.entry = "run"
    /\ wf_result' = WorkflowStateData(wf_state)
    /\ wf_pc' = "returned"
    /\ UNCHANGED <<wf_in, wf_node, wf_state, wf_trace, wf_fetched, wf_error, brVars, trVars, exVars>>

\* a caller of build() runs the compiled graph on their own state: the
\* stand-in's runner(state), or langgraph's runner.invoke(state)
WfCallGraph ==
    /\ wf_pc = "start"
    /\ wf_in.entry = "graph"
    /\ LET brief == BusinessBrief(wf_in.title, wf_in.brief_text, Nil, wf_in.tags)
           state == [brief |-> brief]
       IN  wf_state' = IF wf_in.brand_id = Nil THEN state
                       ELSE DictSet(state, "brand_id", wf_in.brand_id)
    /\ wf_pc' = "running"
    /\ wf_node' = Build.entry
    /\ UNCHANGED <<wf_in, wf_trace, wf_fetched, wf_error, wf_result, brVars, trVars, exVars>>

\* the compiled graph hands the final state back to its caller
WfGraphDone ==
    /\ wf_pc = "running"
    /\ wf_node = END
    /\ wf_in.entry = "graph"
    /\ wf_pc' = "finished"
    /\ UNCHANGED <<wf_in, wf_node, wf_state, wf_trace, wf_fetched, wf_error, wf_result,
                   brVars, trVars, exVars>>

WfNext ==
    \/ WfBuild \/ WfInvoke \/ WfRunnerStep \/ WfReturn
    \/ WfCallGraph \/ WfGraphDone

(***************************************************************************)
(* translator.py                                                           *)
(***************************************************************************)
\* self.max_chunk_size: 4500 in the source (translator.py, line 24), scaled
\* down together with the texts
max_chunk_size == 4
\* the longest text given to translate
MaxTextLen == 7

TrChars == {"a", ".", " ", "\n"}

RECURSIVE Texts(_)
\* every text of at most n characters
Texts(n) ==
    IF n = 0 THEN {<<>>}
    ELSE LET shorter == Texts(n - 1)
         IN  shorter \cup {Append(t, c) : t \in {u \in shorter : Len(u) = n - 1},
                                           c \in TrChars}

RECURSIVE Split(_, _)
\* str.split(sep)
Split(s, sep) ==
    LET at == Find(s, sep, 0)
    IN  IF at = -1 THEN <<s>>
        ELSE <<Slice(s, 0, at)>> \o Split(Slice(s, at + Len(sep), Len(s)), sep)

RECURSIVE JoinWith(_, _)
\* sep.join(parts)
JoinWith(sep, parts) ==
    IF parts = <<>> THEN <<>>
    ELSE IF Len(parts) = 1 THEN parts[1]
    ELSE parts[1] \o sep \o JoinWith(sep, Tail(parts))

ParagraphSep == <<"\n", "\n">>
SentenceSep == <<" ">>

Punct == {".", "!", "?"}

\* the length of the longest run of characters of `set` in s from index i (1-based)
RECURSIVE RunLen(_, _, _)
RunLen(s, i, set) ==
    IF i <= Len(s) /\ s[i] \in set THEN 1 + RunLen(s, i + 1, set) ELSE 0

\* re.split(r'([.!?]+\s+)', paragraph): the texts between the delimiters at
\* the odd places, the delimiters at the even places
RECURSIVE ReSplit(_)
ReSplit(s) ==
    LET starts == {i \in 1 .. Len(s) :
                      /\ s[i] \in Punct
                      /\ RunLen(s, i + RunLen(s, i, Punct), Whitespace) > 0}
    IN  IF starts = {} THEN <<s>>
        ELSE LET i  == CHOOSE k \in starts : \A j \in starts : k <= j
                 np == RunLen(s, i, Punct)
                 nw == RunLen(s, i + np, Whitespace)
             IN  <<SubSeq(s, 1, i - 1), SubSeq(s, i, i + np + nw - 1)>>
                    \o ReSplit(SubSeq(s, i + np + nw, Len(s)))

\* what the backend returns for a chunk when it does not fail: its translation,
\* or the chunk itself when the backend is one that changes nothing
Backend(kind, chunk) ==
    IF kind = "echo" THEN chunk
    ELSE [i \in 1 .. Len(chunk) |-> IF chunk[i] = "a" THEN "b" ELSE chunk[i]]

\* mutant: no except clause around the backend call
TryTranslate_NoExcept(kind, chunk, fallback, ok) ==
    IF ok THEN [raised |-> FALSE, value |-> Backend(kind, chunk)]
    ELSE [raised |-> TRUE, value |-> fallback]

\* try: self.translator.translate(chunk) / except Exception: the fallback
TryTranslate(kind, chunk, fallback, ok) ==
    [raised |-> FALSE, value |-> IF ok THEN Backend(kind, chunk) ELSE fallback]

\* the record of one backend call: the chunk passed, whether the call
\* succeeded, what was put into the output for it, the place of that piece in
\* translated_paragraphs, and the call site ("direct", "chunk", "sentences",
\* "truncated")
Call(chunk, ok, piece, place, site) ==
    [arg |-> chunk, ok |-> ok, out |-> piece, place |-> place, site |-> site]

\* translate is not run
TrIdle ==
    /\ tr_in = None /\ tr_pc = "idle"
    /\ tr_paragraphs = <<>> /\ tr_pi = 0 /\ tr_current = <<>> /\ tr_out = <<>>
    /\ tr_sentences = <<>> /\ tr_si = 0 /\ tr_scur = <<>> /\ tr_sout = <<>>
    /\ tr_calls = <<>> /\ tr_result = Nil

TrInit ==
    /\ tr_in \in [text : Texts(MaxTextLen), backend : {"echo", "translate"}]
    /\ tr_pc = "start"
    /\ tr_paragraphs = <<>> /\ tr_pi = 0 /\ tr_current = <<>> /\ tr_out = <<>>
    /\ tr_sentences = <<>> /\ tr_si = 0 /\ tr_scur = <<>> /\ tr_sout = <<>>
    /\ tr_calls = <<>> /\ tr_result = Nil

\* one guarded backend call inside a loop: the call is logged with the value
\* the call site appends to its output list, and an error that escapes ends
\* translate
TrCallEffect(r, chunk, ok, site) ==
    /\ tr_calls' = Append(tr_calls, Call(chunk, ok, r.value, Len(tr_out) + 1, site))
    /\ IF r.raised THEN tr_pc' = "raised" ELSE UNCHANGED tr_pc

\* translate: if not text or not text.strip(): return text
TrBlank ==
    /\ tr_pc = "start"
    /\ Strip(tr_in.text) = <<>>
    /\ tr_result' = tr_in.text
    /\ tr_pc' = "done"
    /\ UNCHANGED <<tr_in, tr_paragraphs, tr_pi, tr_current, tr_out, tr_sentences,
                   tr_si, tr_scur, tr_sout, tr_calls, brVars, wfVars, exVars>>

\* translate with a second attempt after a failed call
TrDirect_Retries ==
    /\ tr_pc = "start"
    /\ Strip(tr_in.text) # <<>>
    /\ Len(tr_in.text) <= max_chunk_size
    /\ \E ok \in BOOLEAN, again \in BOOLEAN :
         LET r     == TryTranslate(tr_in.backend, tr_in.text, tr_in.text, ok)
             s     == TryTranslate(tr_in.backend, tr_in.text, tr_in.text, again)
             first == Call(tr_in.text, ok, r.value, 1, "direct")
         IN  /\ tr_calls' = IF ok THEN Append(tr_calls, first)
                            ELSE tr_calls \o <<first, Call(tr_in.text, again, s.value, 1, "direct")>>
             /\ tr_pc' = "done"
             /\ tr_result' = IF ok THEN r.value ELSE s.value
    /\ UNCHANGED <<tr_in, tr_paragraphs, tr_pi, tr_current, tr_out, tr_sentences,
                   tr_si, tr_scur, tr_sout, brVars, wfVars, exVars>>

\* translate: short text is translated in one call
TrDirect ==
    /\ tr_pc = "start"
    /\ Strip(tr_in.text) # <<>>
    /\ Len(tr_in.text) <= max_chunk_size
    /\ \E ok \in BOOLEAN :
         LET r == TryTranslate(tr_in.backend, tr_in.text, tr_in.text, ok)
         IN  /\ tr_calls' = Append(tr_calls, Call(tr_in.text, ok, r.value, 1, "direct"))
             /\ tr_pc' = IF r.raised THEN "raised" ELSE "done"
             /\ tr_result' = IF r.raised THEN Nil ELSE r.value
    /\ UNCHANGED <<tr_in, tr_paragraphs, tr_pi, tr_current, tr_out, tr_sentences,
                   tr_si, tr_scur, tr_sout, brVars, wfVars, exVars>>

\* translate -> _translate_chunks: paragraphs = text.split("\n\n")
TrEnterChunks ==
    /\ tr_pc = "start"
    /\ Strip(tr_in.text) # <<>>
    /\ Len(tr_in.text) > max_chunk_size
    /\ tr_paragraphs' = Split(tr_in.text, ParagraphSep)
    /\ tr_pi' = 1
    /\ tr_current' = <<>>
    /\ tr_out' = <<>>
    /\ tr_pc' = "paras"
    /\ UNCHANGED <<tr_in, tr_sentences, tr_si, tr_scur, tr_sout, tr_calls, tr_result,
                   brVars, wfVars, exVars>>

\* the paragraph does not fit: len(current_chunk) + len(para) + 2 > max_chunk_size
ParaOverflows(current, para) == Len(current) + Len(para) + 2 > max_chunk_size

\* paragraph loop, the paragraph does not fit and current_chunk is not empty:
\* translate current_chunk, then current_chunk = para
TrParaFlush ==
    /\ tr_pc = "paras"
    /\ tr_pi <= Len(tr_paragraphs)
    /\ ParaOverflows(tr_current, tr_paragraphs[tr_pi])
    /\ tr_current # <<>>
    /\ \E ok \in BOOLEAN :
         LET r == TryTranslate(tr_in.backend, tr_current, tr_current, ok)
         IN  /\ TrCallEffect(r, tr_current, ok, "chunk")
             /\ tr_out' = Append(tr_out, r.value)
    /\ tr_current' = tr_paragraphs[tr_pi]
    /\ tr_pi' = tr_pi + 1
    /\ UNCHANGED <<tr_in, tr_paragraphs, tr_sentences, tr_si, tr_scur, tr_sout,
                   tr_result, brVars, wfVars, exVars>>

\* paragraph loop, the paragraph does not fit and current_chunk is empty:
\* _translate_long_paragraph(para) starts with sentences = re.split(...)
TrParaLong ==
    /\ tr_pc = "paras"
    /\ tr_pi <= Len(tr_paragraphs)
    /\ ParaOverflows(tr_current, tr_paragraphs[tr_pi])
    /\ tr_current = <<>>
    /\ tr_sentences' = ReSplit(tr_paragraphs[tr_pi])
    /\ tr_si' = 1
    /\ tr_scur' = <<>>
    /\ tr_sout' = <<>>
    /\ tr_pc' = "sents"
    /\ UNCHANGED <<tr_in, tr_paragraphs, tr_pi, tr_current, tr_out, tr_calls,
                   tr_result, brVars, wfVars, exVars>>

\* paragraph loop, the paragraph fits:
\* current_chunk += "\n\n" + para if current_chunk else para
TrParaJoin ==
    /\ tr_pc = "paras"
    /\ tr_pi <= Len(tr_paragraphs)
    /\ ~ParaOverflows(tr_current, tr_paragraphs[tr_pi])
    /\ tr_current' = IF tr_current # <<>>
                     THEN tr_current \o ParagraphSep \o tr_paragraphs[tr_pi]
                     ELSE tr_paragraphs[tr_pi]
    /\ tr_pi' = tr_pi + 1
    /\ UNCHANGED <<tr_in, tr_pc, tr_paragraphs, tr_out, tr_sentences, tr_si, tr_scur,
                   tr_sout, tr_calls, tr_result, brVars, wfVars, exVars>>

\* after the paragraph loop: translate the remaining chunk, then join
TrParaFinish ==
    /\ tr_pc = "paras"
    /\ tr_pi > Len(tr_paragraphs)
    /\ IF tr_current # <<>>
       THEN \E ok \in BOOLEAN :
              LET r == TryTranslate(tr_in.backend, tr_current, tr_current, ok)
              IN  /\ tr_calls' = Append(tr_calls,
                                    Call(tr_current, ok, r.value, Len(tr_out) + 1, "chunk"))
                  /\ tr_out' = Append(tr_out, r.value)
                  /\ tr_pc' = IF r.raised THEN "raised" ELSE "done"
                  /\ tr_result' = IF r.raised THEN Nil
                                  ELSE JoinWith(ParagraphSep, Append(tr_out, r.value))
       ELSE /\ tr_result' = JoinWith(ParagraphSep, tr_out)
            /\ tr_pc' = "done"
            /\ UNCHANGED <<tr_calls, tr_out>>
    /\ UNCHANGED <<tr_in, tr_paragraphs, tr_pi, tr_current, tr_sentences, tr_si,
                   tr_scur, tr_sout, brVars, wfVars, exVars>>

\* sentences[i] and its delimiter sentences[i + 1] (empty after the last one)
Sentence == tr_sentences[tr_si]
Delimiter == IF tr_si + 1 <= Len(tr_sentences) THEN tr_sentences[tr_si + 1] ELSE <<>>

\* len(current_chunk) + len(sentence) + len(delimiter) > max_chunk_size
SentenceOverflows(current, sentence, delimiter) ==
    Len(current) + Len(sentence) + Len(delimiter) > max_chunk_size

\* sentence loop, the sentence does not fit and current_chunk is not empty:
\* translate current_chunk, then current_chunk = sentence + delimiter
TrSentFlush ==
    /\ tr_pc = "sents"
    /\ tr_si <= Len(tr_sentences)
    /\ SentenceOverflows(tr_scur, Sentence, Delimiter)
    /\ tr_scur # <<>>
    /\ \E ok \in BOOLEAN :
         LET r == TryTranslate(tr_in.backend, tr_scur, tr_scur, ok)
         IN  /\ TrCallEffect(r, tr_scur, ok, "sentences")
             /\ tr_sout' = Append(tr_sout, r.value)
    /\ tr_scur' = Sentence \o Delimiter
    /\ tr_si' = tr_si + 2
    /\ UNCHANGED <<tr_in, tr_paragraphs, tr_pi, tr_current, tr_out, tr_sentences,
                   tr_result, brVars, wfVars, exVars>>

\* sentence loop, the sentence alone does not fit: translate its first
\* max_chunk_size characters; the fallback is the whole sentence
TrSentTruncate ==
    /\ tr_pc = "sents"
    /\ tr_si <= Len(tr_sentences)
    /\ SentenceOverflows(tr_scur, Sentence, Delimiter)
    /\ tr_scur = <<>>
    /\ \E ok \in BOOLEAN :
         LET chunk == Slice(Sentence, 0, max_chunk_size)
             r     == TryTranslate(tr_in.backend, chunk, Sentence, ok)
         IN  /\ TrCallEffect(r, chunk, ok, "truncated")
             /\ tr_sout' = Append(tr_sout, r.value)
    /\ tr_si' = tr_si + 2
    /\ UNCHANGED <<tr_in, tr_paragraphs, tr_pi, tr_current, tr_out, tr_sentences,
                   tr_scur, tr_result, brVars, wfVars, exVars>>

\* sentence loop, the sentence fits: current_chunk += sentence + delimiter
TrSentJoin ==
    /\ tr_pc = "sents"
    /\ tr_si <= Len(tr_sentences)
    /\ ~SentenceOverflows(tr_scur, Sentence, Delimiter)
    /\ tr_scur' = tr_scur \o Sentence \o Delimiter
    /\ tr_si' = tr_si + 2
    /\ UNCHANGED <<tr_in, tr_pc, tr_paragraphs, tr_pi, tr_current, tr_out,
                   tr_sentences, tr_sout, tr_calls, tr_result, brVars, wfVars, exVars>>

\* after the sentence loop: translate the remaining chunk, join with spaces,
\* and back in the paragraph loop append the result to translated_paragraphs
TrSentFinish ==
    /\ tr_pc = "sents"
    /\ tr_si > Len(tr_sentences)
    /\ IF tr_scur # <<>>
       THEN \E ok \in BOOLEAN :
              LET r == TryTranslate(tr_in.backend, tr_scur, tr_scur, ok)
              IN  /\ tr_calls' = Append(tr_calls,
                                    Call(tr_scur, ok, r.value, Len(tr_out) + 1, "sentences"))
                  /\ tr_sout' = Append(tr_sout, r.value)
                  /\ tr_pc' = IF r.raised THEN "raised" ELSE "paras"
                  /\ tr_out' = IF r.raised THEN tr_out
                               ELSE Append(tr_out,
                                        JoinWith(SentenceSep, Append(tr_sout, r.value)))
       ELSE /\ tr_out' = Append(tr_out, JoinWith(SentenceSep, tr_sout))
            /\ tr_pc' = "paras"
            /\ UNCHANGED <<tr_calls, tr_sout>>
    /\ tr_pi' = tr_pi + 1
    /\ UNCHANGED <<tr_in, tr_paragraphs, tr_current, tr_sentences, tr_si, tr_scur,
                   tr_result, brVars, wfVars, exVars>>

TrNext ==
    \/ TrBlank \/ TrDirect \/ TrEnterChunks
    \/ TrParaFlush \/ TrParaLong \/ TrParaJoin \/ TrParaFinish
    \/ TrSentFlush \/ TrSentTruncate \/ TrSentJoin \/ TrSentFinish

(***************************************************************************)
(* brand_center/api_client.py                                              *)
(***************************************************************************)
\* getattr(obj, name, default)
GetAttr(obj, name, default) == IF name \in DOMAIN obj THEN obj[name] ELSE default

\* dict.get(key, default)
GetOr(d, key, default) == IF key \in DOMAIN d THEN d[key] ELSE default

\* the status lines a server answers with
ApStatuses == {200, 204, 304, 399, 400, 401, 403, 404, 500, 503}

\* what response.json() gives when the body is JSON
ApPayloads ==
    { <<>>,
      [detail |-> <<"Forbidden">>],
      [tone_of_voice |-> <<"Friendly">>],
      [tone_of_voice |-> <<"Friendly">>, visual_style |-> <<"Bold">>,
       compliance_notes |-> <<"GDPR compliant">>] }

\* response.text
ApTexts == { <<>>, <<"raw body">> }

\* the answers of a server: status line, body as JSON (json: the mapping;
\* bad_json: the body does not parse), body as text; a response object may
\* also lack the status_code attribute
ApAnswers ==
    [status_code : ApStatuses, json : ApPayloads, text : ApTexts]
        \cup [status_code : ApStatuses, bad_json : {TRUE}, text : ApTexts]
        \cup [json : ApPayloads, text : ApTexts]

\* the session of the client: one handed in by the caller (or requests.Session)
\* returns a response for every status; the standard-library one opens the
\* URL with urllib
ApSessions == {"given", "urllib"}

\* the base_url the client is built with: bare, or with trailing slashes
ApBaseUrls ==
    { <<"https://brand">>, <<"https://brand", "/">>, <<"https://brand", "/", "/">> }

\* the client is not used
ApIdle ==
    /\ ap_in = None /\ ap_pc = "idle" /\ ap_request = None /\ ap_response = None
    /\ ap_error = None /\ ap_result = None

ApInit ==
    /\ ap_in \in {in \in [session : ApSessions, base_url : ApBaseUrls,
                         brand_id : {<<"dnb">>}, answer : ApAnswers] :
                    "status_code" \notin DOMAIN in.answer => in.session = "given"}
    /\ ap_pc = "start"
    /\ ap_request = None /\ ap_response = None /\ ap_error = None /\ ap_result = None

\* f"{status_code}": the decimal digits of a status code
Str(n) ==
    CASE n = 200 -> "200" [] n = 204 -> "204" [] n = 304 -> "304" [] n = 399 -> "399"
      [] n = 400 -> "400" [] n = 401 -> "401" [] n = 403 -> "403" [] n = 404 -> "404"
      [] n = 500 -> "500" [] n = 503 -> "503"

\* BrandCenterError(message)
BrandCenterError(message) == [type |-> "BrandCenterError", message |-> message]

\* api_key of the client
ApKey == <<"token">>

RECURSIVE RStripSlash(_)
\* str.rstrip("/")
RStripSlash(s) ==
    IF s # <<>> /\ s[Len(s)] = "/" THEN RStripSlash(SubSeq(s, 1, Len(s) - 1)) ELSE s

\* mutant: the base URL is kept as it was given
ClientBaseUrl_Unstripped(base_url) == base_url

\* BrandCenterClient.__init__: self.base_url = base_url.rstrip("/")
ClientBaseUrl(base_url) == RStripSlash(base_url)

\* _request: the method, the URL and the headers handed to session.request
Request(base_url, method, path) ==
    [method  |-> method,
     url     |-> ClientBaseUrl(base_url) \o path,
     headers |-> [Authorization |-> <<"Bearer ">> \o ApKey,
                  ContentType   |-> <<"application/json">>,
                  Accept        |-> <<"application/json">>],
     timeout |-> 10]

\* _UrlLibSession.request: urllib.request.urlopen hands back a response for a
\* 2xx status and raises HTTPError for every other one
UrlOpenRaises(status_code) == ~(200 <= status_code /\ status_code < 300)

\* fetch_guidelines -> _request: response = self.session.request(...)
ApRequest ==
    /\ ap_pc = "start"
    /\ ap_request' = Request(ap_in.base_url, "GET",
                             <<"/brands/">> \o ap_in.brand_id \o <<"/guidelines">>)
    /\ IF ap_in.session = "urllib" /\ UrlOpenRaises(ap_in.answer.status_code)
       THEN /\ ap_pc' = "raised"
            /\ ap_error' = [type |-> "HTTPError", message |-> <<"HTTP Error ", Str(ap_in.answer.status_code)>>]
            /\ UNCHANGED ap_response
       ELSE /\ ap_pc' = "responded"
            /\ ap_response' = ap_in.answer
            /\ UNCHANGED ap_error
    /\ UNCHANGED <<ap_in, ap_result, apRest>>

\* _extract_error_detail: response.json().get("detail", response.text), and
\* getattr(response, "text", "") when json() raises
ExtractErrorDetail(response) ==
    IF "json" \in DOMAIN response THEN GetOr(response.json, "detail", response.text)
    ELSE GetAttr(response, "text", <<>>)

\* _validate_response
ValidateResponse(response) ==
    LET status_code == GetAttr(response, "status_code", 500)
    IN  IF status_code = 401
        THEN Raises(BrandCenterError(<<"Authentication with Brand Centre failed">>))
        ELSE IF status_code = 403
        THEN Raises(BrandCenterError(<<"Access denied by Brand Centre policies">>))
        ELSE IF status_code >= 400
        THEN Raises(BrandCenterError(<<"Brand Centre error ", Str(status_code), ": ">>
                                        \o ExtractErrorDetail(response)))
        ELSE Returns(None)

\* _request: self._validate_response(response); return response
ApValidate ==
    /\ ap_pc = "responded"
    /\ LET out == ValidateResponse(ap_response)
       IN  IF out.raised
           THEN ap_pc' = "raised" /\ ap_error' = out.error
           ELSE ap_pc' = "validated" /\ UNCHANGED ap_error
    /\ UNCHANGED <<ap_in, ap_request, ap_response, ap_result, apRest>>

\* fetch_guidelines: payload = response.json(); BrandGuidelines(payload.get(...))
ApParse ==
    /\ ap_pc = "validated"
    /\ IF "json" \in DOMAIN ap_response
       THEN /\ ap_result' = BrandGuidelines(GetOr(ap_response.json, "tone_of_voice", <<>>),
                                            GetOr(ap_response.json, "visual_style", <<>>),
                                            GetOr(ap_response.json, "compliance_notes", <<>>))
            /\ ap_pc' = "returned"
            /\ UNCHANGED ap_error
       ELSE /\ ap_error' = [type |-> "JSONDecodeError", message |-> ap_response.text]
            /\ ap_pc' = "raised"
            /\ UNCHANGED ap_result
    /\ UNCHANGED <<ap_in, ap_request, ap_response, apRest>>

ApNext == ApRequest \/ ApValidate \/ ApParse

(***************************************************************************)
(* document_processor.py                                                   *)
(*                                                                         *)
(* The format parsers (python-pptx, python-docx, pdfplumber, openpyxl) are *)
(* outside the program: a file carries what its parser hands back, or the  *)
(* fact that the parser raises.                                            *)
(***************************************************************************)
\* [F(x) for x in seq]
Map(seq, F(_)) == [i \in 1 .. Len(seq) |-> F(seq[i])]

\* the concatenation of the sequences of a sequence
RECURSIVE Flatten(_)
Flatten(seqs) == IF seqs = <<>> THEN <<>> ELSE Head(seqs) \o Flatten(Tail(seqs))

\* str.rfind(ch), 0-based, -1 when absent
RFind(s, ch) ==
    LET hits == {i \in 0 .. Len(s) - 1 : s[i + 1] = ch}
    IN  IF hits = {} THEN -1 ELSE CHOOSE i \in hits : \A j \in hits : i >= j

\* Path.suffix: the name from its last dot on, unless that dot is the first
\* or the last character of the name
Suffix(name) ==
    LET i == RFind(name, ".")
    IN  IF 0 < i /\ i < Len(name) - 1 THEN Slice(name, i, Len(name)) ELSE <<>>

Newline == <<"\n">>
CellSep == <<" ", "|", " ">>

\* " | ".join(cell.text.strip() for cell in row.cells if cell.text.strip())
RowText(row) ==
    JoinWith(CellSep,
             Map(SelectSeq(row, LAMBDA cell : Strip(cell.text) # <<>>),
                 LAMBDA cell : Strip(cell.text)))

\* the non-empty row texts of a table
TableRows(table) == SelectSeq(Map(table, RowText), LAMBDA row_text : row_text # <<>>)

\* what one shape adds to slide_text: its stripped text, then its table rows
ShapeText(shape) ==
    (IF "text" \in DOMAIN shape /\ Strip(shape.text) # <<>>
     THEN <<Strip(shape.text)>> ELSE <<>>)
        \o (IF "table" \in DOMAIN shape THEN TableRows(shape.table) ELSE <<>>)

\* _process_pptx: slides_content
SlidesContent(slides) ==
    LET slide_text(k) == Flatten(Map(slides[k], ShapeText))
        kept == SelectSeq([k \in 1 .. Len(slides) |-> k], LAMBDA k : slide_text(k) # <<>>)
    IN  Map(kept, LAMBDA k : [slide |-> k, content |-> JoinWith(Newline, slide_text(k))])

\* _process_pptx
ProcessPptx(name, prs) ==
    LET slides_content == SlidesContent(prs.slides)
    IN  [file_name |-> name,
         file_type |-> "pptx",
         slides    |-> slides_content,
         full_text |-> JoinWith(ParagraphSep,
                                Map(slides_content, LAMBDA slide : slide.content))]

\* "\n\nTables:\n"
TablesHeading == <<"\n", "\n", "T", "a", "b", "l", "e", "s", ":", "\n">>

\* _process_docx
ProcessDocx(name, doc) ==
    LET paragraphs ==
            Map(SelectSeq(doc.paragraphs, LAMBDA para : Strip(para.text) # <<>>),
                LAMBDA para : Strip(para.text))
        tables_content ==
            Map(SelectSeq(Map(doc.tables, TableRows), LAMBDA table_text : table_text # <<>>),
                LAMBDA table_text : JoinWith(Newline, table_text))
        full_text == JoinWith(Newline, paragraphs)
    IN  [file_name  |-> name,
         file_type  |-> "docx",
         paragraphs |-> paragraphs,
         tables     |-> tables_content,
         full_text  |-> IF tables_content # <<>>
                        THEN full_text \o TablesHeading
                                \o JoinWith(ParagraphSep, tables_content)
                        ELSE full_text]

\* a cell of a pdfplumber table is a string or None; `if cell` keeps the
\* non-empty strings
Truthy(cell) == cell # None /\ cell.text # <<>>

\* "\n".join(" | ".join(str(cell) for cell in row if cell) for row in table if row)
PdfTableText(table) ==
    JoinWith(Newline,
             Map(SelectSeq(table, LAMBDA row : row # <<>>),
                 LAMBDA row : JoinWith(CellSep,
                                       Map(SelectSeq(row, Truthy), LAMBDA cell : cell.text))))

\* "[TABLE]\n"
TableTag == <<"[", "T", "A", "B", "L", "E", "]", "\n">>

\* what one page adds to pages_content: its text, then one entry per table
PageEntries(page_num, page) ==
    (IF page.text # None /\ Strip(page.text.text) # <<>>
     THEN <<[page |-> page_num, content |-> Strip(page.text.text)]>> ELSE <<>>)
        \o Map(SelectSeq(Map(page.tables, PdfTableText),
                      LAMBDA table_text : table_text # <<>>),
               LAMBDA table_text :
                   [page |-> page_num, content |-> TableTag \o table_text])

\* _process_pdf
ProcessPdf(name, pdf) ==
    LET pages_content ==
            Flatten([k \in 1 .. Len(pdf.pages) |-> PageEntries(k, pdf.pages[k])])
    IN  [file_name |-> name,
         file_type |-> "pdf",
         pages     |-> pages_content,
         full_text |-> JoinWith(ParagraphSep,
                                Map(pages_content, LAMBDA page : page.content))]

\* [str(cell) for cell in row if cell is not None and str(cell).strip()]
RowValues(row) ==
    Map(SelectSeq(row, LAMBDA cell : cell # None /\ Strip(cell.text) # <<>>),
        LAMBDA cell : cell.text)

\* _process_excel: sheets_content
SheetsContent(sheets) ==
    LET rows_text(sheet) ==
            Map(SelectSeq(Map(sheet.rows, RowValues), LAMBDA row_values : row_values # <<>>),
                LAMBDA row_values : JoinWith(CellSep, row_values))
    IN  Map(SelectSeq(sheets, LAMBDA sheet : rows_text(sheet) # <<>>),
            LAMBDA sheet : [sheet   |-> sheet.name,
                            content |-> JoinWith(Newline, rows_text(sheet))])

\* _process_excel
ProcessExcel(name, wb) ==
    LET sheets_content == SheetsContent(wb.sheets)
    IN  [file_name |-> name,
         file_type |-> "xlsx",
         sheets    |-> sheets_content,
         full_text |-> JoinWith(ParagraphSep,
                                Map(sheets_content,
                                    LAMBDA s : <<"[", "S", "h", "e", "e", "t", ":", " ">> \o s.sheet \o <<"]", "\n">>
                                                  \o s.content))]

\* the outcome of process_file: the record, or the error raised; extractor is
\* the _process_* method that was entered, Nil when none was
Processed(extractor, record) ==
    [raised |-> FALSE, value |-> record, extractor |-> extractor]
Failed(extractor, error) ==
    [raised |-> TRUE, error |-> error, extractor |-> extractor]

\* one _process_* method on a file: the parser raises, or the record is built
\* from what the parser hands back
RunExtractor(extractor, file) ==
    IF file.raises THEN Failed(extractor, "ParserError")
    ELSE Processed(extractor,
            CASE extractor = "pptx"  -> ProcessPptx(file.name, file.parsed)
              [] extractor = "docx"  -> ProcessDocx(file.name, file.parsed)
              [] extractor = "pdf"   -> ProcessPdf(file.name, file.parsed)
              [] extractor = "excel" -> ProcessExcel(file.name, file.parsed))

Ext_pptx == <<".", "p", "p", "t", "x">>
Ext_docx == <<".", "d", "o", "c", "x">>
Ext_pdf == <<".", "p", "d", "f">>
Ext_xlsx == <<".", "x", "l", "s", "x">>
Ext_xls == <<".", "x", "l", "s">>
Ext_txt == <<".", "t", "x", "t">>

\* mutant: the extension is compared as it is written
ProcessFile_NoLower(file) ==
    IF file.kind = "missing" THEN Failed(Nil, "FileNotFoundError")
    ELSE LET extension == Suffix(file.name)
         IN  IF extension = Ext_pptx THEN RunExtractor("pptx", file)
             ELSE IF extension = Ext_docx THEN RunExtractor("docx", file)
             ELSE IF extension = Ext_pdf THEN RunExtractor("pdf", file)
             ELSE IF extension \in {Ext_xlsx, Ext_xls} THEN RunExtractor("excel", file)
             ELSE Failed(Nil, "ValueError")

\* process_file
ProcessFile(file) ==
    IF file.kind = "missing" THEN Failed(Nil, "FileNotFoundError")
    ELSE LET extension == Lower(Suffix(file.name))
         IN  IF extension = Ext_pptx THEN RunExtractor("pptx", file)
             ELSE IF extension = Ext_docx THEN RunExtractor("docx", file)
             ELSE IF extension = Ext_pdf THEN RunExtractor("pdf", file)
             ELSE IF extension \in {Ext_xlsx, Ext_xls} THEN RunExtractor("excel", file)
             ELSE Failed(Nil, "ValueError")

\* process_directory: extensions = [".pptx", ".docx", ".pdf", ".xlsx", ".xls"]
DefaultExtensions == <<Ext_pptx, Ext_docx, Ext_pdf, Ext_xlsx, Ext_xls>>

\* x in list
InList(x, list) == \E i \in 1 .. Len(list) : list[i] = x

\* the log entry of one call of process_file
FileCall(file, out) ==
    [name |-> file.name, extractor |-> out.extractor, raised |-> out.raised]

\* mutant: the error of a file is raised again out of the loop
DirTurn_Reraises(results, file_path, extensions) ==
    IF file_path.kind = "file" /\ InList(Lower(Suffix(file_path.name)), extensions)
    THEN LET out == ProcessFile(file_path)
         IN  [results |-> IF out.raised THEN results ELSE Append(results, out.value),
              calls   |-> <<FileCall(file_path, out)>>,
              raised  |-> out.raised,
              error   |-> IF out.raised THEN out.error ELSE Nil]
    ELSE [results |-> results, calls |-> <<>>, raised |-> FALSE, error |-> Nil]

\* process_directory, one turn of the loop over directory_path.iterdir(): a
\* failure of process_file is printed, never raised
DirTurn(results, file_path, extensions) ==
    IF file_path.kind = "file" /\ InList(Lower(Suffix(file_path.name)), extensions)
    THEN LET out == ProcessFile(file_path)
         IN  [results |-> IF out.raised THEN results ELSE Append(results, out.value),
              calls   |-> <<FileCall(file_path, out)>>,
              raised  |-> FALSE,
              error   |-> Nil]
    ELSE [results |-> results, calls |-> <<>>, raised |-> FALSE, error |-> Nil]

\* a cell or a text box holding the text t
Txt(t) == [text |-> t]

\* what the parsers hand back for the files of the model
Deck ==
    [slides |-> << <<Txt(<<" ", "a", " ">>)>>,
                   <<Txt(<<" ">>)>>,
                   <<Txt(<<"b">>),
                     [table |-> << <<Txt(<<"c">>), Txt(<<" ">>), Txt(<<"d">>)>>,
                                   <<Txt(<<>>)>> >>]>> >>]
EmptyDeck == [slides |-> <<>>]
Letter ==
    [paragraphs |-> <<Txt(<<"a">>), Txt(<<" ">>), Txt(<<"b", " ">>)>>, tables |-> <<>>]
Report ==
    [paragraphs |-> <<Txt(<<"a">>)>>,
     tables     |-> << << <<Txt(<<"c">>), Txt(<<"d">>)>> >>, << <<Txt(<<" ">>)>> >> >>]
Scan ==
    [pages |-> << [text |-> Txt(<<"a", "\n">>), tables |-> <<>>],
                  [text |-> None,
                   tables |-> << << <<Txt(<<"c">>), None, Txt(<<"d">>)>>, <<>> >>,
                                 << <<None>> >> >>] >>]
Workbook ==
    [sheets |-> << [name |-> <<"S">>,
                    rows |-> << <<Txt(<<"a">>), None, Txt(<<" ", "b">>)>>,
                                <<None, Txt(<<" ">>)>> >>],
                   [name |-> <<"T">>, rows |-> <<>>] >>]
EmptyWorkbook == [sheets |-> <<>>]

\* a directory entry, or a path that does not exist
File(name, kind, raises, parsed) ==
    [name |-> name, kind |-> kind, raises |-> raises, parsed |-> parsed]

\* the files that exist; openpyxl refuses the old .xls format, and no parser
\* opens a directory
DpExisting ==
    { File(<<"a", ".", "p", "p", "t", "x">>, "file", FALSE, Deck),
      File(<<"b", ".", "P", "P", "T", "X">>, "file", FALSE, EmptyDeck),
      File(<<"n", ".", "d", "o", "c", "x">>, "file", FALSE, Letter),
      File(<<"r", ".", "D", "o", "c", "x">>, "file", FALSE, Report),
      File(<<"c", ".", "d", "o", "c", "x">>, "file", TRUE, None),
      File(<<"e", ".", "p", "d", "f">>, "file", FALSE, Scan),
      File(<<"f", ".", "x", "l", "s", "x">>, "file", FALSE, Workbook),
      File(<<"q", ".", "x", "l", "s", "x">>, "file", FALSE, EmptyWorkbook),
      File(<<"g", ".", "x", "l", "s">>, "file", TRUE, None),
      File(<<"h", ".", "t", "x", "t">>, "file", FALSE, None),
      File(<<"n", "o", "e", "x", "t">>, "file", FALSE, None),
      File(<<".", "p", "d", "f">>, "file", FALSE, None),
      File(<<"d", ".", "p", "d", "f">>, "dir", TRUE, None) }

DpMissing == { File(<<"m", ".", "p", "d", "f">>, "missing", TRUE, None) }

\* the most entries a directory holds
MaxDirFiles == 2

RECURSIVE Listings(_)
\* the listings of a directory of at most n entries, in iterdir order
Listings(n) ==
    IF n = 0 THEN {<<>>}
    ELSE LET shorter == Listings(n - 1)
         IN  shorter \cup {Append(l, f) : l \in {k \in shorter : Len(k) = n - 1},
                                          f \in DpExisting}

\* the extensions argument of process_directory: None, or the caller's list
DpExtensions == { None, [list |-> <<Ext_pdf, Ext_txt>>] }

\* the processor is not used
DpIdle ==
    /\ dp_in = None /\ dp_pc = "idle" /\ dp_i = 0 /\ dp_results = <<>>
    /\ dp_calls = <<>> /\ dp_result = None /\ dp_error = Nil

DpInit ==
    /\ dp_in \in [mode : {"file"}, files : {<<f>> : f \in DpExisting \cup DpMissing},
                  extensions : {None}]
                \cup [mode : {"directory"}, files : Listings(MaxDirFiles),
                      extensions : DpExtensions]
    /\ dp_pc = "start"
    /\ dp_i = 0 /\ dp_results = <<>> /\ dp_calls = <<>>
    /\ dp_result = None /\ dp_error = Nil

\* processor.process_file(path)
DpProcessFile ==
    /\ dp_pc = "start"
    /\ dp_in.mode = "file"
    /\ LET out == ProcessFile(dp_in.files[1])
       IN  /\ dp_calls' = <<FileCall(dp_in.files[1], out)>>
           /\ IF out.raised
              THEN dp_pc' = "raised" /\ dp_error' = out.error /\ UNCHANGED dp_result
              ELSE dp_pc' = "returned" /\ dp_result' = out.value /\ UNCHANGED dp_error
    /\ UNCHANGED <<dp_in, dp_i, dp_results, dpRest>>

\* process_directory, up to the loop: extensions defaults, results = []
DpDirEnter ==
    /\ dp_pc = "start"
    /\ dp_in.mode = "directory"
    /\ dp_pc' = "listing"
    /\ dp_i' = 1
    /\ dp_results' = <<>>
    /\ UNCHANGED <<dp_in, dp_calls, dp_result, dp_error, dpRest>>

\* process_directory: one turn of the loop
DpDirTurn ==
    /\ dp_pc = "listing"
    /\ dp_i <= Len(dp_in.files)
    /\ LET extensions == IF dp_in.extensions = None THEN DefaultExtensions
                         ELSE dp_in.extensions.list
           turn       == DirTurn(dp_results, dp_in.files[dp_i], extensions)
       IN  /\ dp_results' = turn.results
           /\ dp_calls' = dp_calls \o turn.calls
           /\ IF turn.raised
              THEN dp_pc' = "raised" /\ dp_error' = turn.error
              ELSE UNCHANGED <<dp_pc, dp_error>>
    /\ dp_i' = dp_i + 1
    /\ UNCHANGED <<dp_in, dp_result, dpRest>>

\* process_directory: return results
DpDirReturn ==
    /\ dp_pc = "listing"
    /\ dp_i > Len(dp_in.files)
    /\ dp_pc' = "returned"
    /\ UNCHANGED <<dp_in, dp_i, dp_results, dp_calls, dp_result, dp_error, dpRest>>

DpNext == DpProcessFile \/ DpDirEnter \/ DpDirTurn \/ DpDirReturn

(***************************************************************************)
(* brand_guidelines_extractor.py                                           *)
(*                                                                         *)
(* The iteration order of a Python set of strings is not fixed by the      *)
(* program (it follows the per-process hash seed), so every value built by *)
(* iterating a set is one of several: the _extract_* operators give the    *)
(* set of the values a call can return.                                    *)
(***************************************************************************)
UpperLetters == {UpperMap[c] : c \in DOMAIN UpperMap}
LowerLetters == DOMAIN UpperMap
Digits == {"0", "1", "2", "3", "4", "5", "6", "7", "8", "9"}

\* \w of the re module
IsWordChar(c) == c \in UpperLetters \cup LowerLetters \cup Digits \cup {"_"}

\* str.capitalize(): the first character in upper case, the rest in lower case
Capitalize(s) ==
    IF s = <<>> THEN <<>>
    ELSE <<IF Head(s) \in DOMAIN UpperMap THEN UpperMap[Head(s)] ELSE Head(s)>>
            \o Lower(Tail(s))

\* set(seq)
ToSet(seq) == {seq[i] : i \in 1 .. Len(seq)}

\* any(keyword in line.lower() for keyword in keywords)
AnyKeyword(keywords, line) ==
    LET lowered == Lower(line)
    IN  \E keyword \in keywords : IsSubstring(keyword, lowered)

\* " ".join(lines[i:min(i+n, len(lines))]) for the 1-based position i
Context(lines, i, n) == JoinWith(<<" ">>, SubSeq(lines, i, Min(i + n - 1, Len(lines))))

\* the contexts (n lines each, longer than 20 characters) of the lines that
\* hold a keyword, in line order
Indicators(keywords, text, n) ==
    LET lines == SplitLines(text)
        at    == SelectSeq([i \in 1 .. Len(lines) |-> i],
                           LAMBDA i : /\ AnyKeyword(keywords, lines[i])
                                      /\ Len(Context(lines, i, n)) > 20)
    IN  Map(at, LAMBDA i : Context(lines, i, n))

\* the stripped lines lines[j], j in range(i+1, min(i+n, len(lines))), of
\* every line i that holds a keyword, kept when Keep(lines[j])
Following(keywords, text, n, Keep(_)) ==
    LET lines == SplitLines(text)
        at    == SelectSeq([i \in 1 .. Len(lines) |-> i],
                           LAMBDA i : AnyKeyword(keywords, lines[i]))
        after(i) == SelectSeq(SubSeq(lines, i + 1, Min(i + n - 1, Len(lines))),
                              LAMBDA line : Strip(line) # <<>> /\ Keep(line))
    IN  Map(Flatten(Map(at, after)), Strip)

\* the length of the run of characters c with In(c) that starts at the
\* 0-based index p
Run(s, p, In(_)) ==
    LET stops == {i \in p .. Len(s) - 1 : ~In(s[i + 1])}
    IN  (IF stops = {} THEN Len(s)
         ELSE CHOOSE i \in stops : \A j \in stops : i <= j) - p

\* no match of a pattern at a position
NoMatch == [ok |-> FALSE, group |-> <<>>, end |-> 0]

RECURSIVE Walk(_, _)
\* re.findall: the groups of the matches found scanning from the 0-based
\* index p on, each scan resuming where the last match ended; at[p + 1] is
\* the match of the pattern that starts at p
Walk(at, p) ==
    LET hits == {q \in p .. Len(at) - 1 : at[q + 1].ok}
    IN  IF hits = {} THEN <<>>
        ELSE LET first == at[(CHOOSE q \in hits : \A r \in hits : q <= r) + 1]
             IN  <<first.group>> \o Walk(at, first.end)

\* re.findall(pattern, s), MatchAt(p) the match of the pattern at p
FindAll(s, MatchAt(_)) == Walk([i \in 1 .. Len(s) |-> MatchAt(i - 1)], 0)

\* re.findall(r'\b(w1|w2|...)\b', s): at a position the first alternative
\* that fits between two word boundaries is taken
WordHits(words, s) ==
    LET fits(w, p) ==
            /\ Slice(s, p, p + Len(w)) = w
            /\ (p = 0 \/ ~IsWordChar(s[p]))
            /\ (p + Len(w) = Len(s) \/ ~IsWordChar(s[p + Len(w) + 1]))
        MatchAt(p) ==
            LET hits == {k \in 1 .. Len(words) : fits(words[k], p)}
            IN  IF hits = {} THEN NoMatch
                ELSE LET w == words[CHOOSE k \in hits : \A j \in hits : k <= j]
                     IN  [ok |-> TRUE, group |-> w, end |-> p + Len(w)]
    IN  FindAll(s, MatchAt)

\* the end of the keyword (among keys, of which at most one starts with a
\* given character) that starts at p, or -1; Fold is the case folding of the
\* match
KeyEnd(s, p, keys, Fold(_)) ==
    LET hits == {k \in keys : Fold(Slice(s, p, p + Len(k))) = k}
    IN  IF hits = {} THEN -1 ELSE p + Len(CHOOSE k \in hits : TRUE)

\* key Sep+ (First Body{lo,hi}) at p: the separator run is greedy and gives
\* characters back until the group fits; the group is greedy
KeyGroup(s, p, keys, Fold(_), Sep(_), First(_), Body(_), lo, hi) ==
    LET e    == KeyEnd(s, p, keys, Fold)
        fits == {a \in 1 .. (IF e = -1 THEN 0 ELSE Run(s, e, Sep)) :
                    /\ e + a < Len(s)
                    /\ First(s[e + a + 1])
                    /\ Run(s, e + a + 1, Body) >= lo}
    IN  IF fits = {} THEN NoMatch
        ELSE LET a == CHOOSE i \in fits : \A j \in fits : i >= j
                 g == e + a
                 n == Min(Run(s, g + 1, Body), hi)
             IN  [ok |-> TRUE, group |-> Slice(s, g, g + 1 + n), end |-> g + 1 + n]

\* key Sep+ (Class+?) Term at p: the separator run is greedy and gives
\* characters back until the group fits; the group is lazy
KeyLazyGroup(s, p, keys, Fold(_), Sep(_), Class(_), Term(_)) ==
    LET e    == KeyEnd(s, p, keys, Fold)
        ends(g) == {b \in 1 .. Run(s, g, Class) : g + b < Len(s) /\ Term(s[g + b + 1])}
        fits == {a \in 1 .. (IF e = -1 THEN 0 ELSE Run(s, e, Sep)) : ends(e + a) # {}}
    IN  IF fits = {} THEN NoMatch
        ELSE LET a == CHOOSE i \in fits : \A j \in fits : i >= j
                 g == e + a
                 b == CHOOSE i \in ends(g) : \A j \in ends(g) : i <= j
             IN  [ok |-> TRUE, group |-> Slice(s, g, g + b), end |-> g + b + 1]

Identity(s) == s

\* the elements of set(seq), each once, in the order of their first occurrence
Distinct(seq) ==
    Map(SelectSeq([i \in 1 .. Len(seq) |-> i],
                  LAMBDA i : \A j \in 1 .. i - 1 : seq[j] # seq[i]),
        LAMBDA i : seq[i])

\* the orders in which an iteration over a set of k elements can visit them
Orders(k) == IF k = 0 THEN {<<>>} ELSE Permutations(1 .. k)

\* self.keywords
Keywords ==
    [tone       |->
        { <<"t", "o", "n", "e">>,
          <<"v", "o", "i", "c", "e">>,
          <<"s", "t", "y", "l", "e">>,
          <<"p", "e", "r", "s", "o", "n", "a", "l", "i", "t", "y">>,
          <<"c", "h", "a", "r", "a", "c", "t", "e", "r">>,
          <<"c", "o", "m", "m", "u", "n", "i", "c", "a", "t", "i", "o", "n">> },
     visual     |->
        { <<"v", "i", "s", "u", "a", "l">>,
          <<"d", "e", "s", "i", "g", "n">>,
          <<"c", "o", "l", "o", "r">>,
          <<"f", "o", "n", "t">>,
          <<"t", "y", "p", "o", "g", "r", "a", "p", "h", "y">>,
          <<"a", "e", "s", "t", "h", "e", "t", "i", "c">>,
          <<"l", "o", "o", "k">>,
          <<"f", "e", "e", "l">> },
     audience   |->
        { <<"a", "u", "d", "i", "e", "n", "c", "e">>,
          <<"t", "a", "r", "g", "e", "t">>,
          <<"s", "e", "g", "m", "e", "n", "t">>,
          <<"c", "u", "s", "t", "o", "m", "e", "r">>,
          <<"d", "e", "m", "o", "g", "r", "a", "p", "h", "i", "c">> },
     values     |->
        { <<"v", "a", "l", "u", "e">>,
          <<"p", "r", "i", "n", "c", "i", "p", "l", "e">>,
          <<"b", "e", "l", "i", "e", "f">>,
          <<"m", "i", "s", "s", "i", "o", "n">>,
          <<"v", "i", "s", "i", "o", "n">>,
          <<"p", "u", "r", "p", "o", "s", "e">> },
     compliance |->
        { <<"c", "o", "m", "p", "l", "i", "a", "n", "c", "e">>,
          <<"l", "e", "g", "a", "l">>,
          <<"r", "e", "g", "u", "l", "a", "t", "i", "o", "n">>,
          <<"p", "o", "l", "i", "c", "y">>,
          <<"r", "e", "q", "u", "i", "r", "e", "m", "e", "n", "t">>,
          <<"g", "d", "p", "r">>,
          <<"p", "r", "i", "v", "a", "c", "y">> },
     messaging  |->
        { <<"m", "e", "s", "s", "a", "g", "e">>,
          <<"m", "e", "s", "s", "a", "g", "i", "n", "g">>,
          <<"n", "a", "r", "r", "a", "t", "i", "v", "e">>,
          <<"s", "t", "o", "r", "y">>,
          <<"p", "o", "s", "i", "t", "i", "o", "n", "i", "n", "g">> },
     campaign   |->
        { <<"c", "a", "m", "p", "a", "i", "g", "n">>,
          <<"i", "n", "i", "t", "i", "a", "t", "i", "v", "e">>,
          <<"a", "c", "t", "i", "v", "a", "t", "i", "o", "n">>,
          <<"p", "r", "o", "g", "r", "a", "m">> },
     content    |->
        { <<"c", "o", "n", "t", "e", "n", "t">>,
          <<"c", "r", "e", "a", "t", "i", "v", "e">>,
          <<"c", "o", "p", "y">>,
          <<"a", "s", "s", "e", "t">>,
          <<"m", "a", "t", "e", "r", "i", "a", "l">> }]

\* _extract_tone: the alternatives of the descriptors pattern
ToneDescriptors ==
    << <<"p", "r", "o", "f", "e", "s", "s", "i", "o", "n", "a", "l">>,
       <<"t", "r", "u", "s", "t", "w", "o", "r", "t", "h", "y">>,
       <<"f", "r", "i", "e", "n", "d", "l", "y">>,
       <<"w", "a", "r", "m">>,
       <<"i", "n", "n", "o", "v", "a", "t", "i", "v", "e">>,
       <<"r", "e", "l", "i", "a", "b", "l", "e">>,
       <<"p", "e", "r", "s", "o", "n", "a", "l">>,
       <<"e", "m", "p", "o", "w", "e", "r", "i", "n", "g">>,
       <<"a", "u", "t", "h", "e", "n", "t", "i", "c">>,
       <<"t", "r", "a", "n", "s", "p", "a", "r", "e", "n", "t">>,
       <<"e", "x", "p", "e", "r", "t">>,
       <<"a", "p", "p", "r", "o", "a", "c", "h", "a", "b", "l", "e">>,
       <<"c", "o", "n", "f", "i", "d", "e", "n", "t">>,
       <<"c", "a", "r", "i", "n", "g">>,
       <<"d", "y", "n", "a", "m", "i", "c">>,
       <<"m", "o", "d", "e", "r", "n">> >>

\* _extract_visual_style: the alternatives of the colors pattern
ColorWords ==
    << <<"b", "l", "u", "e">>,
       <<"g", "r", "e", "e", "n">>,
       <<"r", "e", "d">>,
       <<"o", "r", "a", "n", "g", "e">>,
       <<"y", "e", "l", "l", "o", "w">>,
       <<"w", "h", "i", "t", "e">>,
       <<"b", "l", "a", "c", "k">>,
       <<"g", "r", "a", "y">>,
       <<"g", "r", "e", "y">>,
       <<"p", "u", "r", "p", "l", "e">>,
       <<"m", "o", "d", "e", "r", "n">>,
       <<"c", "l", "e", "a", "n">>,
       <<"m", "i", "n", "i", "m", "a", "l">>,
       <<"b", "o", "l", "d">>,
       <<"e", "l", "e", "g", "a", "n", "t">> >>

\* _extract_audiences: the alternatives of the common audiences pattern
CommonAudiences ==
    << <<"i", "n", "v", "e", "s", "t", "o", "r", "s">>,
       <<"c", "u", "s", "t", "o", "m", "e", "r", "s">>,
       <<"r", "e", "t", "a", "i", "l", "e", "r", "s">>,
       <<"S", "M", "B">>,
       <<"s", "m", "a", "l", "l", " ", "b", "u", "s", "i", "n", "e", "s", "s">>,
       <<"f", "i", "n", "a", "n", "c", "e", " ", "l", "e", "a", "d", "e", "r", "s">>,
       <<"o", "p", "e", "r", "a", "t", "i", "o", "n", "s", " ", "l", "e", "a", "d", "e", "r", "s">>,
       <<"c", "o", "n", "s", "u", "m", "e", "r", "s">>,
       <<"h", "o", "u", "s", "e", "h", "o", "l", "d", "s">>,
       <<"w", "o", "m", "e", "n">>,
       <<"m", "e", "n">>,
       <<"y", "o", "u", "t", "h">>,
       <<"s", "e", "n", "i", "o", "r", "s">> >>

\* _extract_audiences: (?:target|audience|segment|customer)
AudienceKeys ==
    { <<"t", "a", "r", "g", "e", "t">>,
      <<"a", "u", "d", "i", "e", "n", "c", "e">>,
      <<"s", "e", "g", "m", "e", "n", "t">>,
      <<"c", "u", "s", "t", "o", "m", "e", "r">> }

\* _extract_values: value_keywords
value_keywords ==
    << <<"t", "r", "u", "s", "t">>,
       <<"i", "n", "n", "o", "v", "a", "t", "i", "o", "n">>,
       <<"i", "n", "t", "e", "g", "r", "i", "t", "y">>,
       <<"e", "x", "c", "e", "l", "l", "e", "n", "c", "e">>,
       <<"s", "u", "s", "t", "a", "i", "n", "a", "b", "i", "l", "i", "t", "y">>,
       <<"r", "e", "s", "p", "o", "n", "s", "i", "b", "i", "l", "i", "t", "y">>,
       <<"t", "r", "a", "n", "s", "p", "a", "r", "e", "n", "c", "y">>,
       <<"e", "m", "p", "o", "w", "e", "r", "m", "e", "n", "t">>,
       <<"c", "o", "l", "l", "a", "b", "o", "r", "a", "t", "i", "o", "n">>,
       <<"c", "u", "s", "t", "o", "m", "e", "r", "-", "c", "e", "n", "t", "r", "i", "c">>,
       <<"q", "u", "a", "l", "i", "t", "y">>,
       <<"r", "e", "l", "i", "a", "b", "i", "l", "i", "t", "y">> >>

\* _extract_campaign_themes: (?:campaign|theme|initiative)
CampaignKeys ==
    { <<"c", "a", "m", "p", "a", "i", "g", "n">>,
      <<"t", "h", "e", "m", "e">>,
      <<"i", "n", "i", "t", "i", "a", "t", "i", "v", "e">> }

\* _extract_campaign_themes: thematic_keywords
thematic_keywords ==
    << <<"g", "r", "o", "w", "t", "h">>,
       <<"i", "n", "v", "e", "s", "t", "m", "e", "n", "t">>,
       <<"s", "a", "v", "i", "n", "g", "s">>,
       <<"d", "i", "g", "i", "t", "a", "l">>,
       <<"s", "u", "s", "t", "a", "i", "n", "a", "b", "i", "l", "i", "t", "y">>,
       <<"e", "m", "p", "o", "w", "e", "r", "m", "e", "n", "t">>,
       <<"t", "r", "u", "s", "t">>,
       <<"p", "a", "r", "t", "n", "e", "r", "s", "h", "i", "p">>,
       <<"i", "n", "n", "o", "v", "a", "t", "i", "o", "n">>,
       <<"c", "o", "m", "m", "u", "n", "i", "t", "y">> >>

\* _extract_channel_guidelines: channel_names
channel_names ==
    << <<"e", "m", "a", "i", "l">>,
       <<"s", "o", "c", "i", "a", "l">>,
       <<"w", "e", "b">>,
       <<"d", "i", "g", "i", "t", "a", "l">>,
       <<"p", "r", "i", "n", "t">>,
       <<"v", "i", "d", "e", "o">>,
       <<"t", "v">>,
       <<"r", "a", "d", "i", "o">> >>

\* _extract_messaging_principles: [•\-\*], BULLET standing for U+2022
BulletKeys ==
    { <<"BULLET">>, <<"-">>, <<"*">> }

ToneDefault ==
    <<"P", "r", "o", "f", "e", "s", "s", "i", "o", "n", "a", "l", " ", "a",
      "n", "d", " ", "t", "r", "u", "s", "t", "w", "o", "r", "t", "h", "y">>

TonePrefix ==
    <<"P", "r", "o", "f", "e", "s", "s", "i", "o", "n", "a", "l", " ", "a",
      "n", "d", " ">>

VisualDefault ==
    <<"C", "o", "r", "p", "o", "r", "a", "t", "e", ",", " ", "c", "l", "e",
      "a", "n", ",", " ", "m", "i", "n", "i", "m", "a", "l">>

VisualPrefix ==
    <<"C", "o", "r", "p", "o", "r", "a", "t", "e", " ", "s", "t", "y", "l",
      "e", " ", "f", "e", "a", "t", "u", "r", "i", "n", "g", " ">>

ComplianceDefault ==
    <<"E", "n", "s", "u", "r", "e", " ", "a", "l", "i", "g", "n", "m", "e",
      "n", "t", " ", "w", "i", "t", "h", " ", "D", "N", "B", " ", "d", "a",
      "t", "a", " ", "p", "r", "i", "v", "a", "c", "y", " ", "p", "o", "l",
      "i", "c", "i", "e", "s", " ", "a", "n", "d", " ", "N", "o", "r", "w",
      "e", "g", "i", "a", "n", " ", "f", "i", "n", "a", "n", "c", "i", "a",
      "l", " ", "r", "e", "g", "u", "l", "a", "t", "i", "o", "n", "s", ".">>

ClearSimple ==
    <<"U", "s", "e", " ", "c", "l", "e", "a", "r", " ", "a", "n", "d", " ",
      "s", "i", "m", "p", "l", "e", " ", "l", "a", "n", "g", "u", "a", "g",
      "e">>

Authentic ==
    <<"M", "a", "i", "n", "t", "a", "i", "n", " ", "a", "u", "t", "h", "e",
      "n", "t", "i", "c", " ", "b", "r", "a", "n", "d", " ", "v", "o", "i",
      "c", "e">>

StrongVisual ==
    <<"U", "s", "e", " ", "s", "t", "r", "o", "n", "g", " ", "v", "i", "s",
      "u", "a", "l", " ", "s", "t", "o", "r", "y", "t", "e", "l", "l", "i",
      "n", "g">>

\* [:\s], \s, and the characters the groups of the patterns stop at
IsSepChar(c) == c = ":" \/ c \in Whitespace
IsSpaceChar(c) == c \in Whitespace
IsSentenceEnd(c) == c \in {".", ";", "\n"}
NotSentenceEnd(c) == ~IsSentenceEnd(c)
IsUpperLetter(c) == c \in UpperLetters
NotBulletChar(c) == c \notin {"BULLET", "-", "*", "\n"}
IsAudienceChar(c) ==
    c \in UpperLetters \cup LowerLetters \cup Whitespace \cup {",", "-"}

\* BrandGuidelinesExtracted(): the defaults of the fields
BrandGuidelinesExtracted ==
    [brand_name           |-> <<"D", "N", "B">>,
     tone_of_voice        |-> <<>>,
     visual_style         |-> <<>>,
     messaging_principles |-> <<>>,
     target_audiences     |-> <<>>,
     brand_values         |-> <<>>,
     compliance_notes     |-> <<>>,
     campaign_themes      |-> <<>>,
     content_guidelines   |-> <<>>,
     channel_specific     |-> <<>>]

\* ', '.join(set(hits)): one joined string per iteration order of the set
JoinedSet(hits) ==
    LET elements == Distinct(hits)
    IN  {JoinWith(<<",", " ">>, [i \in 1 .. Len(elements) |-> elements[order[i]]]) :
            order \in Orders(Len(elements))}

\* _extract_tone
ExtractTone(text) ==
    LET tone_indicators == Indicators(Keywords.tone, text, 3)
        descriptors     == WordHits(ToneDescriptors, Lower(text))
    IN  IF tone_indicators # <<>>
        THEN {JoinWith(<<";", " ">>, Slice(tone_indicators, 0, 3))}
        ELSE IF descriptors # <<>>
        THEN {TonePrefix \o joined : joined \in JoinedSet(Slice(descriptors, 0, 5))}
        ELSE {ToneDefault}

\* _extract_visual_style
ExtractVisualStyle(text) ==
    LET visual_indicators == Indicators(Keywords.visual, text, 2)
        colors            == WordHits(ColorWords, Lower(text))
    IN  IF visual_indicators # <<>>
        THEN {JoinWith(<<";", " ">>, Slice(visual_indicators, 0, 2))}
        ELSE IF colors # <<>>
        THEN {VisualPrefix \o joined : joined \in JoinedSet(Slice(colors, 0, 3))}
        ELSE {VisualDefault}

\* mutant: list(set(candidates)) without the cut to n entries
ListOfSet_Uncut(candidates, n) ==
    LET elements == Distinct(candidates)
    IN  {[i \in 1 .. Len(elements) |-> elements[order[i]]] :
            order \in Orders(Len(elements))}

\* list(set(candidates))[:n]: one list per iteration order of the set
ListOfSet(candidates, n) ==
    LET elements == Distinct(candidates)
    IN  {[i \in 1 .. Min(n, Len(elements)) |-> elements[order[i]]] :
            order \in Orders(Len(elements))}

\* _extract_messaging_principles
ExtractMessagingPrinciples(text) ==
    LET bullets ==
            FindAll(text, LAMBDA p : KeyGroup(text, p, BulletKeys, Identity, IsSpaceChar,
                                              IsUpperLetter, NotBulletChar, 20, 150))
        principles ==
            Following(Keywords.messaging, text, 5, LAMBDA line : Len(line) > 20)
                \o Map(SelectSeq(bullets, LAMBDA bullet : AnyKeyword(Keywords.messaging, bullet)),
                       Strip)
    IN  ListOfSet(principles, 5)

\* _extract_audiences
ExtractAudiences(text) ==
    LET matches ==
            FindAll(text, LAMBDA p : KeyLazyGroup(text, p, AudienceKeys, Lower, IsSepChar,
                                                  IsAudienceChar, IsSentenceEnd))
        audiences ==
            Map(SelectSeq(matches, LAMBDA match : /\ Len(Strip(match)) > 10
                                                  /\ Len(Strip(match)) < 100),
                Strip)
        common_audiences == WordHits(CommonAudiences, Lower(text))
    IN  ListOfSet(audiences \o Map(common_audiences, Capitalize), 5)

\* _extract_values
ExtractValues(text) ==
    LET lowered == Lower(text)
        values ==
            Map(SelectSeq(value_keywords, LAMBDA keyword : IsSubstring(keyword, lowered)),
                Capitalize)
                \o Following(Keywords.values, text, 4,
                             LAMBDA line : Len(line) > 15 /\ Len(line) < 80)
    IN  ListOfSet(values, 6)

\* _extract_compliance
ExtractCompliance(text) ==
    LET compliance_notes == Indicators(Keywords.compliance, text, 3)
    IN  IF compliance_notes # <<>>
        THEN {JoinWith(<<";", " ">>, Slice(compliance_notes, 0, 2))}
        ELSE {ComplianceDefault}

\* _extract_campaign_themes
ExtractCampaignThemes(text) ==
    LET lowered == Lower(text)
        matches ==
            FindAll(text, LAMBDA p : KeyGroup(text, p, CampaignKeys, Identity, IsSepChar,
                                              IsUpperLetter, NotSentenceEnd, 10, 80))
        themes ==
            Map(SelectSeq(matches, LAMBDA match : Len(Strip(match)) > 10), Strip)
                \o Map(SelectSeq(thematic_keywords,
                                 LAMBDA keyword : IsSubstring(keyword, lowered)),
                       Capitalize)
    IN  ListOfSet(themes, 8)

\* _extract_content_guidelines
ExtractContentGuidelines(text) ==
    LET lowered == Lower(text)
        has(word) == IsSubstring(word, lowered)
        guidelines ==
            Following(Keywords.content, text, 4, LAMBDA line : Len(line) > 25)
                \o (IF has(<<"c", "l", "e", "a", "r">>) /\ has(<<"s", "i", "m", "p", "l", "e">>)
                    THEN <<ClearSimple>> ELSE <<>>)
                \o (IF has(<<"a", "u", "t", "h", "e", "n", "t", "i", "c">>)
                    THEN <<Authentic>> ELSE <<>>)
                \o (IF has(<<"v", "i", "s", "u", "a", "l">>) /\ has(<<"s", "t", "r", "o", "n", "g">>)
                    THEN <<StrongVisual>> ELSE <<>>)
    IN  ListOfSet(guidelines, 5)

\* _extract_channel_guidelines: the channels that match, each with its first
\* match, stripped and capitalized
ExtractChannelGuidelines(text) ==
    LET lowered == Lower(text)
        matches(channel) ==
            FindAll(lowered, LAMBDA p : KeyGroup(lowered, p, {channel}, Identity, IsSepChar,
                                                 NotSentenceEnd, NotSentenceEnd, 19, 149))
        channels == {channel \in ToSet(channel_names) : matches(channel) # <<>>}
    IN  {[channel \in channels |-> Capitalize(Strip(matches(channel)[1]))]}

\* extract_from_documents: all_text
AllText(documents) ==
    JoinWith(ParagraphSep,
             Map(SelectSeq(documents, LAMBDA doc : GetOr(doc, "full_text", <<>>) # <<>>),
                 LAMBDA doc : GetOr(doc, "full_text", <<>>)))

\* extract_from_documents, the assignments to the fields of guidelines: the
\* records they can leave
ExtractFields(all_text) ==
    [brand_name           : {BrandGuidelinesExtracted.brand_name},
     tone_of_voice        : ExtractTone(all_text),
     visual_style         : ExtractVisualStyle(all_text),
     messaging_principles : ExtractMessagingPrinciples(all_text),
     target_audiences     : ExtractAudiences(all_text),
     brand_values         : ExtractValues(all_text),
     compliance_notes     : ExtractCompliance(all_text),
     campaign_themes      : ExtractCampaignThemes(all_text),
     content_guidelines   : ExtractContentGuidelines(all_text),
     channel_specific     : ExtractChannelGuidelines(all_text)]

\* extract_from_documents: the records a call can return
ExtractFromDocuments(documents) ==
    IF AllText(documents) = <<>> THEN {BrandGuidelinesExtracted}
    ELSE ExtractFields(AllText(documents))

\* a document record with its full_text; the other keys play no part here
Doc(full_text) == [file_name |-> <<"a">>, full_text |-> full_text]

\* a document record without the full_text key
NoText == [file_name |-> <<"a">>]

\* no word the extractor looks for
Greeting ==
    Doc(<<"h", "e", "l", "l", "o", " ", "w", "o", "r", "l", "d">>)

\* a tone keyword on a line whose context has no more than 20 characters
ShortTone ==
    Doc(<<"T", "o", "n", "e", ":", " ", "w", "a", "r", "m">>)

\* a tone keyword on a line of more than 20 characters
LongTone ==
    Doc(<<"T", "o", "n", "e", " ", "o", "f", " ", "v", "o", "i", "c", "e",
          ":", " ", "c", "a", "l", "m", " ", "a", "n", "d", " ", "c", "l",
          "e", "a", "r">>)

\* tone descriptors, no tone keyword
Adjectives ==
    Doc(<<"W", "e", " ", "a", "r", "e", " ", "f", "r", "i", "e", "n", "d",
          "l", "y", " ", "a", "n", "d", " ", "w", "a", "r", "m">>)

\* a visual keyword on a short line, and a word of the colors pattern
ShortFont ==
    Doc(<<"F", "o", "n", "t", ":", " ", "b", "o", "l", "d">>)

\* a compliance keyword on a short line
ShortGdpr ==
    Doc(<<"G", "D", "P", "R", " ", "a", "p", "p", "l", "i", "e", "s">>)

\* more tone contexts than the three that are kept
Voices ==
    Doc(<<"v", "o", "i", "c", "e", " ", "c", "a", "l", "m", "\n", "v", "o",
          "i", "c", "e", " ", "c", "a", "l", "m", "\n", "v", "o", "i", "c",
          "e", " ", "c", "a", "l", "m", "\n", "v", "o", "i", "c", "e", " ",
          "c", "a", "l", "m", "\n", "v", "o", "i", "c", "e", " ", "c", "a",
          "l", "m">>)

\* more visual contexts than the two that are kept
Fonts ==
    Doc(<<"f", "o", "n", "t", " ", "s", "e", "r", "i", "f", "\n", "f", "o",
          "n", "t", " ", "s", "e", "r", "i", "f", "\n", "f", "o", "n", "t",
          " ", "s", "e", "r", "i", "f", "\n", "f", "o", "n", "t", " ", "s",
          "e", "r", "i", "f">>)

\* more compliance contexts than the two that are kept
Laws ==
    Doc(<<"l", "e", "g", "a", "l", " ", "n", "o", "t", "e", "\n", "l", "e",
          "g", "a", "l", " ", "n", "o", "t", "e", "\n", "l", "e", "g", "a",
          "l", " ", "n", "o", "t", "e", "\n", "l", "e", "g", "a", "l", " ",
          "n", "o", "t", "e", "\n", "l", "e", "g", "a", "l", " ", "n", "o",
          "t", "e">>)

\* audience matches and common audiences, one of them twice: more than five candidates
Segments ==
    Doc(<<"T", "a", "r", "g", "e", "t", " ", "a", "u", "d", "i", "e", "n",
          "c", "e", ":", " ", "y", "o", "u", "n", "g", " ", "u", "r", "b",
          "a", "n", " ", "p", "r", "o", "f", "e", "s", "s", "i", "o", "n",
          "a", "l", "s", ".", "\n", "O", "u", "r", " ", "s", "e", "g", "m",
          "e", "n", "t", ":", " ", "f", "a", "m", "i", "l", "i", "e", "s",
          ",", " ", "c", "o", "u", "p", "l", "e", "s", " ", "a", "n", "d",
          " ", "s", "i", "n", "g", "l", "e", "s", ";", "\n", "i", "n", "v",
          "e", "s", "t", "o", "r", "s", " ", "c", "u", "s", "t", "o", "m",
          "e", "r", "s", " ", "r", "e", "t", "a", "i", "l", "e", "r", "s",
          " ", "c", "o", "n", "s", "u", "m", "e", "r", "s", " ", "h", "o",
          "u", "s", "e", "h", "o", "l", "d", "s", " ", "i", "n", "v", "e",
          "s", "t", "o", "r", "s">>)

\* more brand values than the six that are kept
Virtues ==
    Doc(<<"i", "n", "t", "e", "g", "r", "i", "t", "y", " ", "e", "x", "c",
          "e", "l", "l", "e", "n", "c", "e", " ", "r", "e", "s", "p", "o",
          "n", "s", "i", "b", "i", "l", "i", "t", "y", " ", "t", "r", "a",
          "n", "s", "p", "a", "r", "e", "n", "c", "y", "\n", "c", "o", "l",
          "l", "a", "b", "o", "r", "a", "t", "i", "o", "n", " ", "q", "u",
          "a", "l", "i", "t", "y", "\n", "O", "u", "r", " ", "m", "i", "s",
          "s", "i", "o", "n", "\n", "W", "e", " ", "k", "e", "e", "p", " ",
          "o", "u", "r", " ", "w", "o", "r", "d", " ", "t", "o", " ", "e",
          "v", "e", "r", "y", "o", "n", "e">>)

\* more campaign themes than the eight that are kept
Themes ==
    Doc(<<"g", "r", "o", "w", "t", "h", " ", "i", "n", "v", "e", "s", "t",
          "m", "e", "n", "t", " ", "s", "a", "v", "i", "n", "g", "s", " ",
          "d", "i", "g", "i", "t", "a", "l", " ", "p", "a", "r", "t", "n",
          "e", "r", "s", "h", "i", "p", " ", "c", "o", "m", "m", "u", "n",
          "i", "t", "y", "\n", "t", "h", "e", "m", "e", ":", " ", "N", "o",
          "r", "t", "h", "e", "r", "n", " ", "l", "i", "g", "h", "t", "s",
          "\n", "c", "a", "m", "p", "a", "i", "g", "n", ":", " ", "M", "i",
          "d", "s", "u", "m", "m", "e", "r", " ", "d", "a", "y", "s", "\n",
          "i", "n", "i", "t", "i", "a", "t", "i", "v", "e", ":", " ", "H",
          "a", "r", "v", "e", "s", "t", " ", "s", "e", "a", "s", "o", "n">>)

\* more content guidelines than the five that are kept
Styleguide ==
    Doc(<<"A", "l", "l", " ", "c", "o", "n", "t", "e", "n", "t", "\n", "K",
          "e", "e", "p", " ", "e", "v", "e", "r", "y", " ", "c", "l", "e",
          "a", "r", " ", "s", "i", "m", "p", "l", "e", " ", "s", "e", "n",
          "t", "e", "n", "c", "e", " ", "s", "h", "o", "r", "t", "\n", "S",
          "t", "a", "y", " ", "a", "u", "t", "h", "e", "n", "t", "i", "c",
          " ", "i", "n", " ", "a", "l", "l", " ", "t", "h", "a", "t", " ",
          "w", "e", " ", "s", "a", "y", "\n", "P", "a", "i", "r", " ", "s",
          "t", "r", "o", "n", "g", " ", "v", "i", "s", "u", "a", "l", " ",
          "w", "i", "t", "h", " ", "e", "a", "c", "h", " ", "t", "e", "x",
          "t">>)

\* a bullet, a messaging keyword and a channel
Story ==
    Doc(<<"K", "e", "y", " ", "m", "e", "s", "s", "a", "g", "e", "\n", "-",
          " ", "A", "l", "w", "a", "y", "s", " ", "l", "e", "a", "d", " ",
          "w", "i", "t", "h", " ", "t", "h", "e", " ", "c", "u", "s", "t",
          "o", "m", "e", "r", " ", "s", "t", "o", "r", "y", "\n", "E", "m",
          "a", "i", "l", ":", " ", "s", "e", "n", "d", " ", "o", "n", "e",
          " ", "s", "h", "o", "r", "t", " ", "n", "o", "t", "e", " ", "e",
          "a", "c", "h", " ", "w", "e", "e", "k", ".">>)

\* the documents of a batch
GeDocs ==
    { NoText, Doc(<<>>), Greeting, ShortTone, LongTone, Adjectives, ShortFont, ShortGdpr }

\* the documents handed in alone
GeLoneDocs ==
    { Voices, Fonts, Laws, Segments, Virtues, Themes, Styleguide, Story }

\* the most documents of a batch
MaxBatch == 2

RECURSIVE Batches(_)
\* the batches of at most n documents
Batches(n) ==
    IF n = 0 THEN {<<>>}
    ELSE LET shorter == Batches(n - 1)
         IN  shorter \cup {Append(b, d) : b \in {c \in shorter : Len(c) = n - 1},
                                          d \in GeDocs}

\* the extractor is not used
GeIdle == ge_in = None /\ ge_pc = "idle" /\ ge_all_text = <<>> /\ ge_guidelines = None

GeInit ==
    /\ ge_in \in Batches(MaxBatch) \cup {<<d>> : d \in GeLoneDocs}
    /\ ge_pc = "start"
    /\ ge_all_text = <<>>
    /\ ge_guidelines = None

\* extract_from_documents: guidelines = BrandGuidelinesExtracted(), all_text
GeCombine ==
    /\ ge_pc = "start"
    /\ ge_guidelines' = BrandGuidelinesExtracted
    /\ ge_all_text' = AllText(ge_in)
    /\ ge_pc' = "combined"
    /\ UNCHANGED <<ge_in, geRest>>

\* extract_from_documents: if not all_text: return guidelines
GeReturnDefault ==
    /\ ge_pc = "combined"
    /\ ge_all_text = <<>>
    /\ ge_pc' = "returned"
    /\ UNCHANGED <<ge_in, ge_all_text, ge_guidelines, geRest>>

\* extract_from_documents: the nine assignments, return guidelines
GeExtract ==
    /\ ge_pc = "combined"
    /\ ge_all_text # <<>>
    /\ ge_guidelines' \in ExtractFields(ge_all_text)
    /\ ge_pc' = "returned"
    /\ UNCHANGED <<ge_in, ge_all_text, geRest>>

GeNext == GeCombine \/ GeReturnDefault \/ GeExtract

(***************************************************************************)
(* ingest_brand_documents.py                                               *)
(***************************************************************************)
\* the ingestion workflow is not used
IgIdle ==
    /\ ig_in = None /\ ig_pc = "idle" /\ ig_i = 0 /\ ig_documents = <<>>
    /\ ig_translated = <<>> /\ ig_log = <<>> /\ ig_extracted = None /\ ig_result = None

\* TextTranslator.__init__: self.max_chunk_size = 4500, the threshold of the
\* translator the ingestion workflow builds
DefaultMaxChunkSize == 4500

\* translate, for a text of at most DefaultMaxChunkSize characters: a blank
\* text is returned as it is, any other is handed to the backend in one
\* guarded call (ok: the backend answers; otherwise it raises, the error is
\* printed and the text is returned untranslated)
TranslateDirect(text, ok) ==
    IF Strip(text) = <<>> THEN text
    ELSE TryTranslate("translate", text, text, ok).value

\* translate_document: a copy of the record with full_text, the content of
\* every slide, page and sheet, and every paragraph replaced by its translation
TranslateDocument(document, ok) ==
    LET unit(u) == IF "content" \in DOMAIN u
                   THEN [u EXCEPT !.content = TranslateDirect(u.content, ok)]
                   ELSE u
    IN  [key \in DOMAIN document |->
            IF key = "full_text" THEN TranslateDirect(document[key], ok)
            ELSE IF key \in {"slides", "pages", "sheets"} THEN Map(document[key], unit)
            ELSE IF key = "paragraphs"
            THEN Map(document[key], LAMBDA para : TranslateDirect(para, ok))
            ELSE document[key]]

\* the texts translate_document hands to translate
TranslatedTexts(document) ==
    (IF "full_text" \in DOMAIN document THEN <<document.full_text>> ELSE <<>>)
        \o Flatten([k \in 1 .. 3 |->
               LET key == <<"slides", "pages", "sheets">>[k]
               IN  IF key \in DOMAIN document
                   THEN Map(SelectSeq(document[key], LAMBDA u : "content" \in DOMAIN u),
                            LAMBDA u : u.content)
                   ELSE <<>>])
        \o (IF "paragraphs" \in DOMAIN document THEN document.paragraphs ELSE <<>>)

\* what the parsers hand back for the files of a batch
Slide == [slides |-> << <<Txt(<<"a">>)>> >>]
Memo == [paragraphs |-> <<Txt(<<"a">>), Txt(<<"b">>)>>, tables |-> <<>>]
BlankPage == [pages |-> <<[text |-> None, tables |-> <<>>]>>]
Minutes == [paragraphs |-> <<Txt(<<"a">>)>>, tables |-> << << <<Txt(<<"a", "c">>)>> >> >>]
Ledger == [sheets |-> <<[name |-> <<"S">>, rows |-> << <<Txt(<<"a">>)>> >>]>>]

\* the paths handed to process_files
IgFiles ==
    { File(<<"s", ".", "p", "p", "t", "x">>, "file", FALSE, Slide),
      File(<<"t", ".", "d", "o", "c", "x">>, "file", FALSE, Memo),
      File(<<"u", ".", "p", "d", "f">>, "file", FALSE, BlankPage),
      File(<<"v", ".", "p", "d", "f">>, "file", FALSE, Scan),
      File(<<"w", ".", "d", "o", "c", "x">>, "file", FALSE, Minutes),
      File(<<"x", ".", "x", "l", "s", "x">>, "file", FALSE, Ledger),
      File(<<"c", ".", "d", "o", "c", "x">>, "file", TRUE, None),
      File(<<"h", ".", "t", "x", "t">>, "file", FALSE, None),
      File(<<"m", ".", "p", "d", "f">>, "missing", TRUE, None) }

\* a path of the batch, and whether the translation backend answers while
\* the document of that path is translated
IgUnits ==
    {u \in [file : IgFiles, backend_up : BOOLEAN] :
        LET out == ProcessFile(u.file)
        IN  ~out.raised =>
                \A i \in 1 .. Len(TranslatedTexts(out.value)) :
                    Len(TranslatedTexts(out.value)[i]) <= DefaultMaxChunkSize}

\* the most paths of a batch
MaxFiles == 2

RECURSIVE IgBatches(_)
\* the batches of at most n paths
IgBatches(n) ==
    IF n = 0 THEN {<<>>}
    ELSE LET shorter == IgBatches(n - 1)
         IN  shorter \cup {Append(b, u) : b \in {c \in shorter : Len(c) = n - 1},
                                          u \in IgUnits}

\* a line printed about a failure: by process_files when a file does not
\* parse, by translate when the backend raises
Printed(stage, name) == [stage |-> stage, file_name |-> name]

IgInit ==
    /\ ig_in \in IgBatches(MaxFiles)
    /\ ig_pc = "start"
    /\ ig_i = 0 /\ ig_documents = <<>> /\ ig_translated = <<>> /\ ig_log = <<>>
    /\ ig_extracted = None /\ ig_result = None

\* process_files, up to the first loop: documents = []
IgEnter ==
    /\ ig_pc = "start"
    /\ ig_pc' = "parsing"
    /\ ig_i' = 1
    /\ ig_documents' = <<>>
    /\ UNCHANGED <<ig_in, ig_translated, ig_log, ig_extracted, ig_result, igRest>>

\* process_files, one turn of the loop over file_paths: the document is
\* appended, or the error of process_file is printed
IgParse ==
    /\ ig_pc = "parsing"
    /\ ig_i <= Len(ig_in)
    /\ LET out == ProcessFile(ig_in[ig_i].file)
       IN  IF out.raised
           THEN /\ ig_log' = Append(ig_log, Printed("parse", ig_in[ig_i].file.name))
                /\ UNCHANGED ig_documents
           ELSE /\ ig_documents' = Append(ig_documents, out.value)
                /\ UNCHANGED ig_log
    /\ ig_i' = ig_i + 1
    /\ UNCHANGED <<ig_in, ig_pc, ig_translated, ig_extracted, ig_result, igRest>>

\* process_files: if not documents: return {"error": "No documents processed"}
IgNoDocuments ==
    /\ ig_pc = "parsing"
    /\ ig_i > Len(ig_in)
    /\ ig_documents = <<>>
    /\ ig_result' = [error |-> "No documents processed"]
    /\ ig_pc' = "returned"
    /\ UNCHANGED <<ig_in, ig_i, ig_documents, ig_translated, ig_log, ig_extracted, igRest>>

\* process_files, up to the second loop: translated_docs = []
IgParsed ==
    /\ ig_pc = "parsing"
    /\ ig_i > Len(ig_in)
    /\ ig_documents # <<>>
    /\ ig_pc' = "translating"
    /\ ig_i' = 1
    /\ ig_translated' = <<>>
    /\ UNCHANGED <<ig_in, ig_documents, ig_log, ig_extracted, ig_result, igRest>>

\* the backend answers while the k-th parsed document is translated: the
\* documents are those of the paths that parsed, in order
BackendUp(k) ==
    LET parsed == SelectSeq(ig_in, LAMBDA u : ~ProcessFile(u.file).raised)
    IN  parsed[k].backend_up

\* process_files, one turn of the loop over documents: translate_document
\* returns (translate has printed the errors of the backend and kept the
\* text), and the translated record is appended
IgTranslate ==
    /\ ig_pc = "translating"
    /\ ig_i <= Len(ig_documents)
    /\ LET doc   == ig_documents[ig_i]
           ok    == BackendUp(ig_i)
           calls == SelectSeq(TranslatedTexts(doc), LAMBDA text : Strip(text) # <<>>)
       IN  /\ ig_translated' = Append(ig_translated, TranslateDocument(doc, ok))
           /\ ig_log' = ig_log \o (IF ok THEN <<>>
                                   ELSE Map(calls, LAMBDA text :
                                                Printed("translate", doc.file_name)))
    /\ ig_i' = ig_i + 1
    /\ UNCHANGED <<ig_in, ig_pc, ig_documents, ig_extracted, ig_result, igRest>>

\* process_files: guidelines = extract_from_documents(translated_docs), and
\* the mapping returned
IgExtract ==
    /\ ig_pc = "translating"
    /\ ig_i > Len(ig_documents)
    /\ ig_extracted' = [documents |-> ig_translated]
    /\ \E guidelines \in ExtractFromDocuments(ig_translated) :
          ig_result' = [documents_processed  |-> Len(ig_documents),
                        guidelines           |-> guidelines,
                        translated_documents |-> ig_translated]
    /\ ig_pc' = "returned"
    /\ UNCHANGED <<ig_in, ig_i, ig_documents, ig_translated, ig_log, igRest>>

IgNext == IgEnter \/ IgParse \/ IgNoDocuments \/ IgParsed \/ IgTranslate \/ IgExtract

(***************************************************************************)
(* brief_ingest.py: the ingestor called on its own                         *)
(***************************************************************************)
\* Path.stem: the name without its suffix
Stem(name) == Slice(name, 0, Len(name) - Len(Suffix(name)))

\* str(file_path.resolve()): the name under the working directory
Resolve(name) == <<"/", "w", "/">> \o name

\* _derive_title(content, fallback=..., prefer_fallback=True)
DeriveTitlePreferring(text, fallback) ==
    IF fallback # <<>> THEN fallback ELSE DefaultTitle

\* BriefIngestor.from_path(path, title=title), the file read
FromPath(path, title) ==
    BusinessBrief(IF title # <<>> THEN title
                  ELSE DeriveTitlePreferring(path.text, Stem(path.name)),
                  Strip(path.text), Resolve(path.name), <<>>)

\* a line one character longer than a title may be
LongLine == [i \in 1 .. TitleMax + 1 |-> IF i = 1 THEN "L" ELSE "x"]

\* the texts given to the ingestor, inline or as the content of a file
BiTexts ==
    { <<>>,
      <<" ", "\n">>,
      <<"A", "c", "\n", "g">>,
      <<"\n", " ", "A", "c", " ", "\n", "g">>,
      <<" ", "g", " ">>,
      SubSeq(LongLine, 1, TitleMax) \o <<"\n", "g">>,
      LongLine,
      <<"\n">> \o LongLine \o <<"y", "\n", "g">> }

\* the title argument: None (or empty), or a title
BiTitles == { <<>>, <<"T">> }

\* the file names of the paths
BiNames ==
    { <<"b", ".", "t", "x", "t">>, <<"a", ".", "b", ".", "m", "d">>,
      <<"n">>, <<".", "h">> }

\* the calls of the ingestor: from_text, from_path on a file, from_path on a
\* path that does not exist
BiCalls ==
    [mode : {"text"}, text : BiTexts, title : BiTitles]
        \cup [mode : {"path"}, name : BiNames, exists : {TRUE}, text : BiTexts,
              title : BiTitles]
        \cup [mode : {"path"}, name : BiNames, exists : {FALSE}, text : {<<>>},
              title : BiTitles]

\* the ingestor is not used
BiIdle == bi_in = None /\ bi_pc = "idle" /\ bi_brief = None /\ bi_error = Nil

BiInit == bi_in \in BiCalls /\ bi_pc = "start" /\ bi_brief = None /\ bi_error = Nil

\* ingestor.from_text(text, title=title)
BiFromText ==
    /\ bi_pc = "start"
    /\ bi_in.mode = "text"
    /\ bi_brief' = FromText(bi_in.text, bi_in.title)
    /\ bi_pc' = "returned"
    /\ UNCHANGED <<bi_in, bi_error, biRest>>

\* ingestor.from_path(path, title=title): read_text raises when there is no
\* such file
BiFromPath ==
    /\ bi_pc = "start"
    /\ bi_in.mode = "path"
    /\ IF bi_in.exists
       THEN /\ bi_brief' = FromPath(bi_in, bi_in.title)
            /\ bi_pc' = "returned"
            /\ UNCHANGED bi_error
       ELSE /\ bi_error' = "FileNotFoundError"
            /\ bi_pc' = "raised"
            /\ UNCHANGED bi_brief
    /\ UNCHANGED <<bi_in, biRest>>

BiNext == BiFromText \/ BiFromPath

(***************************************************************************)
(* Specifications: one per component, the other components idle            *)
(***************************************************************************)
ExIdle == ApIdle /\ DpIdle /\ GeIdle /\ IgIdle /\ BiIdle

InitBrief == BrInit /\ WfIdle /\ TrIdle /\ ExIdle

SpecBrief == InitBrief /\ [][BrNext]_vars

InitWorkflow == WfInit /\ BrIdle /\ TrIdle /\ ExIdle

SpecWorkflow == InitWorkflow /\ [][WfNext]_vars

InitTranslate == TrInit /\ BrIdle /\ WfIdle /\ ExIdle

CoreIdle == BrIdle /\ WfIdle /\ TrIdle

InitClient == ApInit /\ CoreIdle /\ DpIdle /\ GeIdle /\ IgIdle /\ BiIdle

SpecClient == InitClient /\ [][ApNext]_vars

InitProcessor == DpInit /\ CoreIdle /\ ApIdle /\ GeIdle /\ IgIdle /\ BiIdle

InitGuidelines == GeInit /\ CoreIdle /\ ApIdle /\ DpIdle /\ IgIdle /\ BiIdle

SpecGuidelines == InitGuidelines /\ [][GeNext]_vars

InitIngest == IgInit /\ CoreIdle /\ ApIdle /\ DpIdle /\ GeIdle /\ BiIdle

SpecIngest == InitIngest /\ [][IgNext]_vars

InitIngestor == BiInit /\ CoreIdle /\ ApIdle /\ DpIdle /\ GeIdle /\ IgIdle

SpecIngestor == InitIngestor /\ [][BiNext]_vars

SpecProcessor == InitProcessor /\ [][DpNext]_vars

SpecTranslate == InitTranslate /\ [][TrNext]_vars

(***************************************************************************)
(* Claims about the creative-brief extractor (checked under SpecBrief)     *)
(***************************************************************************)
SectionFields(in) == {in.secs[i].field : i \in 1 .. Len(in.secs)}

\* the text written after the label of field f in the brief
BodyOf(in, f) ==
    LET i == CHOOSE k \in 1 .. Len(in.secs) : in.secs[k].field = f
    IN  in.secs[i].body

\* every field is labeled exactly once
AllFourPresent(in) == SectionFields(in) = Fields /\ in.trailer = <<>>

\* no label of field f occurs anywhere in the brief
MarkerAbsent(in, f) == f \notin SectionFields(in) /\ in.trailer # Marker(f)

\* C4: when all four labeled sections are present, every extracted field is
\* exactly the trimmed text that follows its label in the original content.
C4_ExactLabeledContent ==
    (br_pc # "start" /\ AllFourPresent(br_in)) =>
        \A f \in Fields : br_creative[f] = Strip(BodyOf(br_in, f))

\* the brief contains U+0130, the one modelled character whose lower-casing
\* changes the length of the text
HasLengthChangingChar(in) ==
    \E i \in 1 .. Len(BriefText(in)) : Len(LowerChar(BriefText(in)[i])) # 1

\* (supporting C4) without such a character every extracted field is exactly
\* its labeled content
C4_ExactWhenLowerKeepsLength ==
    (br_pc # "start" /\ AllFourPresent(br_in) /\ ~HasLengthChangingChar(br_in)) =>
        \A f \in Fields : br_creative[f] = Strip(BodyOf(br_in, f))

\* C5: a field whose marker is absent holds its default, and the keys of
\* detect_gaps are exactly the fields whose value equals their default (a
\* subset of the four field names).
C5_DefaultsAndGaps ==
    /\ br_pc # "start" =>
          \A f \in Fields :
              MarkerAbsent(br_in, f) => br_creative[f] = DEFAULT_VALUES[f]
    /\ br_pc = "gaps" =>
          /\ DOMAIN br_gaps = {f \in Fields : br_creative[f] = DEFAULT_VALUES[f]}
          /\ DOMAIN br_gaps \subseteq Fields

\* a brief with a missing section, a labeled section that spells the default
\* out, and a labeled section with its own text, after detect_gaps has run
C5_Witness ==
    /\ br_pc = "gaps"
    /\ \E f \in Fields : MarkerAbsent(br_in, f) /\ f \in DOMAIN br_gaps
    /\ \E f \in Fields : ~MarkerAbsent(br_in, f) /\ f \in DOMAIN br_gaps
    /\ \E f \in Fields : ~MarkerAbsent(br_in, f) /\ f \notin DOMAIN br_gaps

\* C6: every field of an extracted CreativeBrief is a non-empty string.
C6_FieldsNonEmpty ==
    br_pc # "start" => \A f \in Fields : br_creative[f] # <<>>

\* the brief of the input with two neighbouring labeled sections exchanged
C21_Swapped(in, k) ==
    [in EXCEPT !.secs = [i \in 1 .. Len(in.secs) |->
                            IF i = k THEN in.secs[k + 1]
                            ELSE IF i = k + 1 THEN in.secs[k]
                            ELSE in.secs[i]]]

\* the four field values extract gives for the brief text of an input
C21_Values(in) ==
    LET creative == Extract(BusinessBrief(BriefTitle, BriefText(in), Nil, <<>>))
    IN  [f \in Fields |-> creative[f]]

\* C21: the order of the labeled sections is irrelevant to extract: with two
\* neighbouring labeled sections exchanged (and so, step by step, with the
\* sections in any order) every field's extracted value is the same.
C21_SectionOrderIrrelevant ==
    br_pc # "start" =>
        \A k \in 1 .. Len(br_in.secs) - 1 :
            C21_Values(C21_Swapped(br_in, k)) = [f \in Fields |-> br_creative[f]]

\* (supporting C21) the order is irrelevant in every brief without a
\* character whose lower-casing changes the length of the text
C21_OrderIrrelevantWhenLowerKeepsLength ==
    (br_pc # "start" /\ ~HasLengthChangingChar(br_in)) =>
        \A k \in 1 .. Len(br_in.secs) - 1 :
            C21_Values(C21_Swapped(br_in, k)) = [f \in Fields |-> br_creative[f]]

\* a label in one of three letter cases: "goals:", "Goals:", "GOALS:"
C28_Label(field, case) ==
    IF case = "UPPER"
    THEN [i \in 1 .. Len(Marker(field)) |->
             IF Marker(field)[i] \in DOMAIN UpperMap THEN UpperMap[Marker(field)[i]]
             ELSE Marker(field)[i]]
    ELSE Label(field, case)

RECURSIVE C28_SectionsText(_, _)
C28_SectionsText(secs, case) ==
    IF secs = <<>> THEN <<>>
    ELSE C28_Label(Head(secs).field, case) \o Head(secs).body
            \o C28_SectionsText(Tail(secs), case)

\* the brief text of an input with only the letter case of its markers changed
C28_Recased(in, case) ==
    in.preamble \o C28_SectionsText(in.secs, case)
        \o (IF in.trailer = <<>> THEN <<>> ELSE C28_Label("goals", case))

\* C28: marker detection is case-insensitive and the extracted text keeps the
\* original casing: writing the markers in another letter case changes no
\* extracted field value, and the value of every field whose marker is found
\* is a substring of the original content.
C28_CaseInsensitiveMarkers ==
    br_pc # "start" =>
        /\ \A case \in {"lower", "Title", "UPPER"} :
              LET creative ==
                      Extract(BusinessBrief(BriefTitle, C28_Recased(br_in, case), Nil, <<>>))
              IN  \A f \in Fields : creative[f] = br_creative[f]
        /\ \A f \in Fields :
              ~MarkerAbsent(br_in, f) => IsSubstring(br_creative[f], br_brief.content)

\* (supporting C28) the letter case of the markers changes no extracted value
\* in every brief without a character whose lower-casing changes the length
C28_CaseInsensitiveWhenLowerKeepsLength ==
    (br_pc # "start" /\ ~HasLengthChangingChar(br_in)) =>
        \A case \in {"lower", "Title", "UPPER"} :
            LET creative ==
                    Extract(BusinessBrief(BriefTitle, C28_Recased(br_in, case), Nil, <<>>))
            IN  \A f \in Fields : creative[f] = br_creative[f]

(***************************************************************************)
(* Claims about the brief ingestor (checked under SpecIngestor)            *)
(***************************************************************************)
\* the non-blank lines of a text, each without its surrounding whitespace
C23_Lines(text) ==
    SelectSeq(Map(SplitLines(text), Strip), LAMBDA line : line # <<>>)

\* the stems of the file names: b.txt, a.b.md, n, .h
C23_Stem(name) ==
    CASE name = <<"b", ".", "t", "x", "t">> -> <<"b">>
      [] name = <<"a", ".", "b", ".", "m", "d">> -> <<"a", ".", "b">>
      [] name = <<"n">> -> <<"n">>
      [] name = <<".", "h">> -> <<".", "h">>

\* C23: from_text takes the explicit title if given, else the first
\* non-blank line of the text (without its surrounding whitespace) cut to 80
\* characters, else the default title, and sets source to "inline"; from_path
\* takes the explicit title if given, else the stem of the file; in both
\* cases content is the whitespace-stripped text.
C23_Titles ==
    bi_pc = "returned" =>
        /\ bi_brief.content = Strip(bi_in.text)
        /\ bi_in.title # <<>> => bi_brief.title = bi_in.title
        /\ (bi_in.title = <<>> /\ bi_in.mode = "text") =>
              /\ C23_Lines(bi_in.text) # <<>> =>
                    /\ bi_brief.title = SubSeq(C23_Lines(bi_in.text)[1], 1,
                                               Min(80, Len(C23_Lines(bi_in.text)[1])))
                    /\ Len(bi_brief.title) <= 80
              /\ C23_Lines(bi_in.text) = <<>> => bi_brief.title = <<"Untitled Brief">>
        /\ bi_in.mode = "text" => bi_brief.source = "inline"
        /\ (bi_in.title = <<>> /\ bi_in.mode = "path") =>
              bi_brief.title = C23_Stem(bi_in.name)

\* from_text without a title on a text whose first non-blank line, after a
\* blank one, is longer than 80 characters
C23_Witness ==
    /\ bi_pc = "returned"
    /\ bi_in.mode = "text"
    /\ bi_in.title = <<>>
    /\ Len(C23_Lines(bi_in.text)) > 1
    /\ Len(C23_Lines(bi_in.text)[1]) > 80
    /\ Len(bi_brief.title) = 80

\* from_path without a title on a file with text
C23_WitnessPath ==
    /\ bi_pc = "returned"
    /\ bi_in.mode = "path"
    /\ bi_in.title = <<>>
    /\ bi_in.name = <<"a", ".", "b", ".", "m", "d">>
    /\ bi_brief.title = <<"a", ".", "b">>
    /\ C23_Lines(bi_in.text) # <<>>

(***************************************************************************)
(* Claims about the campaign workflow (checked under SpecWorkflow)         *)
(***************************************************************************)
NodeOrder == <<"ingest", "extract", "fetch_guidelines", "campaign", "final">>

IsPrefix(a, b) == Len(a) <= Len(b) /\ SubSeq(b, 1, Len(a)) = a

Occurrences(seq, x) == Cardinality({i \in 1 .. Len(seq) : seq[i] = x})

\* C1: the nodes run in the order ingest, extract, fetch_guidelines,
\* campaign, final: the nodes called so far are always an initial part of
\* that order, the node about to be called is the next one of it, and the
\* loop reaches END (and run returns) only when all five were called once.
C1_StrictNodeOrder ==
    /\ IsPrefix(wf_trace, NodeOrder)
    /\ (wf_pc = "running" /\ wf_node # END) =>
          (Len(wf_trace) < Len(NodeOrder) /\ wf_node = NodeOrder[Len(wf_trace) + 1])
    /\ (wf_node = END \/ wf_pc = "returned") =>
          (wf_trace = NodeOrder /\ \A n \in DOMAIN Build.nodes : Occurrences(wf_trace, n) = 1)

\* a run that returned after the five nodes
C1_Witness == wf_pc = "returned" /\ Len(wf_trace) = 5 /\ wf_node = END

\* C2: whenever run returns, every field of the returned state is populated.
C2_TerminalStatePopulated ==
    wf_pc = "returned" =>
        /\ wf_result.brief = FromText(wf_in.brief_text, wf_in.title)
        /\ wf_result.brand_id = wf_in.brand_id
        /\ wf_result.gaps # None
        /\ wf_result.creative_brief # None
        /\ wf_result.guidelines # None
        /\ wf_result.campaign_plan # None

\* a run that returned, for a brief with no labeled section and no brand id
C2_Witness ==
    /\ wf_pc = "returned"
    /\ wf_in.brief_text = <<>>
    /\ wf_in.brand_id = ""
    /\ wf_result # None

\* the error each failing collaborator call raises
FailureError ==
    [extract |-> "ExtractionError", fetch_guidelines |-> "BrandCenterError",
     campaign |-> "PlanError"]

\* C3: once the failing node has been called, run has raised its error: the
\* node was called once, no node was called after it, and nothing is returned.
C3_ErrorsAbortRun ==
    /\ wf_pc = "raised" => wf_result = None
    /\ (wf_in # None /\ wf_in.failAt # Nil /\ Occurrences(wf_trace, wf_in.failAt) > 0) =>
          /\ wf_pc = "raised"
          /\ wf_error = FailureError[wf_in.failAt]
          /\ wf_trace[Len(wf_trace)] = wf_in.failAt
          /\ Occurrences(wf_trace, wf_in.failAt) = 1
          /\ wf_result = None

\* a run aborted by the brand connector's error, after ingest and extract ran
C3_Witness ==
    /\ wf_pc = "raised"
    /\ wf_error = "BrandCenterError"
    /\ wf_trace = <<"ingest", "extract", "fetch_guidelines">>

\* C11: the campaign plan has the creative brief's field dictionary as its
\* summary and exactly the three channels email, social, web, in that order:
\* the email message contains the brief's messaging and the guidelines' tone
\* of voice and its timeline is the brief's timeframe, the social entry has
\* the guidelines' visual style, the web entry their compliance notes.
C11_PlanShape ==
    (wf_state # None /\ "campaign_plan" \in DOMAIN wf_state) =>
        LET plan == wf_state["campaign_plan"]
            cb   == wf_state["creative_brief"]
            g    == wf_state["guidelines"]
        IN  /\ DOMAIN plan.summary =
                    {"goals", "audience", "messaging", "timeframe", "source_title"}
            /\ \A k \in DOMAIN plan.summary : plan.summary[k] = cb[k]
            /\ Len(plan.channels) = 3
            /\ plan.channels[1].channel = "email"
            /\ plan.channels[2].channel = "social"
            /\ plan.channels[3].channel = "web"
            /\ IsSubstring(cb.messaging, plan.channels[1].message)
            /\ IsSubstring(g.tone_of_voice, plan.channels[1].message)
            /\ plan.channels[1].timeline = cb.timeframe
            /\ plan.channels[2].visual_style = g.visual_style
            /\ plan.channels[3].compliance = g.compliance_notes

\* a plan built from a brief with its own messaging and timeframe and from
\* guidelines other than the stub's
C11_Witness ==
    /\ wf_state # None /\ "campaign_plan" \in DOMAIN wf_state
    /\ wf_state["creative_brief"].messaging = <<"X", "y">>
    /\ wf_state["creative_brief"].timeframe # DEFAULT_VALUES["timeframe"]
    /\ wf_state["guidelines"] # StubGuidelines
    /\ wf_pc = "returned"

\* the brand id the node has to resolve for the inputs of the run
ExpectedBrandId(in) ==
    IF in.brand_id \notin {Nil, ""} THEN in.brand_id
    ELSE IF in.tags # <<>> THEN in.tags[1]
    ELSE "default"

\* C12: the brand connector is called at most once, exactly once when the
\* graph has run to its end, with the explicit brand id if it is not empty,
\* else the first tag of the brief, else "default"; the guidelines it returns
\* are stored in the state.
C12_BrandIdResolution ==
    /\ Len(wf_fetched) <= 1
    /\ Len(wf_fetched) = Occurrences(wf_trace, "fetch_guidelines")
    /\ wf_pc \in {"returned", "finished"} => Len(wf_fetched) = 1
    /\ wf_fetched # <<>> => wf_fetched[1] = ExpectedBrandId(wf_in)
    /\ (wf_fetched # <<>> /\ wf_error # "BrandCenterError") =>
          /\ "guidelines" \in DOMAIN wf_state
          /\ wf_state["guidelines"] = FetchGuidelines(ExpectedBrandId(wf_in))

\* a graph run to its end on a brief with tags and no brand id, the connector
\* called with the first tag
C12_Witness ==
    /\ wf_pc = "finished"
    /\ wf_in.brand_id \in {Nil, ""}
    /\ wf_in.tags # <<>>
    /\ wf_fetched = <<"acme">>
    /\ wf_state["guidelines"] = LocalGuidelinesMap["acme"]

\* the fields a node populates
C25_Populates(node) ==
    CASE node = "extract"          -> {"creative_brief", "gaps"}
      [] node = "fetch_guidelines" -> {"guidelines"}
      [] node = "campaign"         -> {"campaign_plan"}
      [] OTHER                     -> {}

\* the keys whose presence or value differs between two states
C25_Changed(old, new) ==
    {k \in DOMAIN old \cup DOMAIN new :
        k \notin DOMAIN old \/ k \notin DOMAIN new \/ old[k] # new[k]}

\* a node has been called and has returned
C25_NodeReturned ==
    /\ wf_pc = "running"
    /\ wf_trace' = Append(wf_trace, wf_node)
    /\ wf_pc' = "running"

\* C25: each pipeline node changes only the fields it populates and removes
\* none: ingest and final leave the state as it is, extract changes only
\* creative_brief and gaps, fetch_guidelines only guidelines, campaign only
\* campaign_plan; brief and brand_id are in the terminal state what they were
\* in the initial state.
C25_NodesChangeOnlyTheirFields ==
    /\ [][C25_NodeReturned =>
            /\ DOMAIN wf_state \subseteq DOMAIN wf_state'
            /\ C25_Changed(wf_state, wf_state') \subseteq C25_Populates(wf_node)]_vars
    /\ [](wf_pc = "returned" =>
            /\ wf_result.brief = FromText(wf_in.brief_text, wf_in.title)
            /\ wf_result.brand_id = wf_in.brand_id)
    /\ [](wf_pc = "finished" =>
            /\ wf_state["brief"] =
                  BusinessBrief(wf_in.title, wf_in.brief_text, Nil, wf_in.tags)
            /\ IF wf_in.brand_id = Nil THEN "brand_id" \notin DOMAIN wf_state
               ELSE wf_state["brand_id"] = wf_in.brand_id)

\* a run that went through the five nodes and returned a state in which
\* extract, fetch_guidelines and campaign have each left their fields
C25_Witness ==
    /\ wf_pc = "returned"
    /\ wf_trace = <<"ingest", "extract", "fetch_guidelines", "campaign", "final">>
    /\ wf_result.gaps # <<>>
    /\ wf_result.creative_brief # None
    /\ wf_result.guidelines # None
    /\ wf_result.campaign_plan # None
    /\ wf_in.brand_id = "dnb"
    /\ wf_in.title = <<>>

\* C30: with the stand-in StateGraph, run completes unless a node raises: it
\* calls the compiled graph, the five nodes run in order from the entry point
\* along the first edge of each node to END, and run returns their terminal
\* state.
C30_FallbackRunCompletes ==
    (wf_in # None /\ wf_in.entry = "run" /\ wf_in.lib = "fallback") =>
        /\ wf_pc = "raised" => wf_trace # <<>>
        /\ wf_pc = "returned" => (wf_trace = NodeOrder /\ wf_result # None)

\* the stand-in works for a caller who calls the function compile() returns:
\* the nodes run in order from the entry point along the first edge of each
\* to END
C30_FallbackRunnerCalledDirectly ==
    (wf_in # None /\ wf_in.entry = "graph" /\ wf_in.lib = "fallback"
        /\ wf_pc = "finished") =>
        wf_trace = NodeOrder

(***************************************************************************)
(* Claims about the translator (checked under SpecTranslate)               *)
(***************************************************************************)
AllCallsFailed == \A i \in DOMAIN tr_calls : ~tr_calls[i].ok
AllCallsSucceeded == \A i \in DOMAIN tr_calls : tr_calls[i].ok

\* C7: when every backend call fails, translate returns the text unchanged.
C7_FailingBackendReturnsText ==
    (tr_pc = "done" /\ AllCallsFailed) => tr_result = tr_in.text

\* C8: for a text above the threshold, every chunk passed to the backend is
\* at most max_chunk_size long.
C8_ChunksWithinLimit ==
    (tr_in # None /\ Len(tr_in.text) > max_chunk_size) =>
        \A i \in DOMAIN tr_calls : Len(tr_calls[i].arg) <= max_chunk_size

\* the pieces put into the output for the calls of one place, in call order
RECURSIVE PiecesAt(_, _)
PiecesAt(calls, place) ==
    IF calls = <<>> THEN <<>>
    ELSE (IF Head(calls).place = place THEN <<Head(calls).out>> ELSE <<>>)
            \o PiecesAt(Tail(calls), place)

\* the output put together from the call log: the pieces of one paragraph
\* place joined by spaces, the places joined by blank lines
Assembled(calls) ==
    LET last == IF calls = <<>> THEN 0 ELSE calls[Len(calls)].place
    IN  JoinWith(ParagraphSep,
                 [p \in 1 .. last |-> JoinWith(SentenceSep, PiecesAt(calls, p))])

\* C9: translate never raises; a chunk whose call succeeds appears translated,
\* a chunk whose call fails appears as the untranslated original text it was
\* cut from (the chunk itself, or the whole sentence it is the first
\* max_chunk_size characters of), and the output is these pieces in call order.
C9_FailedChunksFallBack ==
    /\ tr_pc # "raised"
    /\ \A i \in DOMAIN tr_calls :
          LET c == tr_calls[i]
          IN  IF c.ok THEN c.out = Backend(tr_in.backend, c.arg)
              ELSE /\ IsPrefix(c.arg, c.out)
                   /\ IsSubstring(c.out, tr_in.text)
                   /\ Len(c.arg) < max_chunk_size => c.out = c.arg
    /\ tr_pc = "done" =>
          tr_result = IF tr_calls = <<>> THEN tr_in.text ELSE Assembled(tr_calls)

\* a finished translation of a chunked text in which one call failed and
\* another succeeded in translating
C9_Witness ==
    /\ tr_pc = "done"
    /\ tr_in.backend = "translate"
    /\ Len(tr_in.text) > max_chunk_size
    /\ \E i, j \in DOMAIN tr_calls :
          /\ ~tr_calls[i].ok
          /\ tr_calls[j].ok /\ tr_calls[j].out # tr_calls[j].arg

\* C10: for a text above the threshold and a backend that returns every chunk
\* unchanged, the output has the same blank-line-delimited paragraphs as the
\* input, in the same order.
C10_RejoinKeepsParagraphs ==
    (/\ tr_pc = "done"
     /\ Len(tr_in.text) > max_chunk_size
     /\ tr_in.backend = "echo"
     /\ AllCallsSucceeded) =>
        Split(tr_result, ParagraphSep) = Split(tr_in.text, ParagraphSep)

\* the calls from the k-th on take successive pieces of the text that do not
\* overlap, the first of them starting at index `from` or later
RECURSIVE C26_InOrder(_, _, _, _)
C26_InOrder(text, calls, k, from) ==
    \/ k > Len(calls)
    \/ \E p \in from .. Len(text) - Len(calls[k].arg) :
          /\ Slice(text, p, p + Len(calls[k].arg)) = calls[k].arg
          /\ C26_InOrder(text, calls, k + 1, p + Len(calls[k].arg))

C26_Ended == tr_pc \in {"done", "raised"}

\* C26: translate makes no backend call for a blank text and returns it
\* unchanged; for a non-blank text of at most max_chunk_size characters it
\* makes exactly one call, on the whole text; for a longer text it makes one
\* call per chunk, the chunks being successive non-overlapping pieces of the
\* text taken in text order, so that no chunk is sent a second time whether or
\* not its call failed.
C26_BackendCalls ==
    tr_in # None =>
        IF Strip(tr_in.text) = <<>>
        THEN /\ tr_calls = <<>>
             /\ C26_Ended => tr_pc = "done" /\ tr_result = tr_in.text
        ELSE IF Len(tr_in.text) <= max_chunk_size
        THEN /\ Len(tr_calls) <= 1
             /\ C26_Ended => Len(tr_calls) = 1
             /\ \A i \in DOMAIN tr_calls :
                   tr_calls[i].arg = tr_in.text /\ tr_calls[i].site = "direct"
        ELSE /\ \A i \in DOMAIN tr_calls : tr_calls[i].site # "direct"
             /\ C26_InOrder(tr_in.text, tr_calls, 1, 0)
             /\ C26_Ended => tr_calls # <<>>

\* a finished translation of a text of exactly max_chunk_size characters in
\* one call, one of a blank text, and one of a chunked text whose first call
\* failed and was followed by the call for the next chunk
C26_Witness ==
    /\ tr_pc = "done"
    /\ Len(tr_in.text) > max_chunk_size
    /\ Len(tr_calls) >= 3
    /\ ~tr_calls[1].ok
    /\ tr_calls[2].arg # tr_calls[1].arg

C26_WitnessAtThreshold ==
    /\ tr_pc = "done"
    /\ Len(tr_in.text) = max_chunk_size
    /\ Len(tr_calls) = 1 /\ ~tr_calls[1].ok

\* the paragraph loop is about to handle the paragraph at tr_pi
C27_AtParagraph == tr_pc = "paras" /\ tr_pi <= Len(tr_paragraphs)
\* the step hands the paragraph to _translate_long_paragraph
C27_Routed == tr_pc = "paras" /\ tr_pc' = "sents"

\* C27: a paragraph is routed to _translate_long_paragraph exactly when it
\* alone is longer than max_chunk_size, wherever it occurs in the text.
C27_RoutedExactlyWhenTooLong ==
    [][C27_AtParagraph =>
          (C27_Routed <=> Len(tr_paragraphs[tr_pi]) > max_chunk_size)]_vars

\* what the code does instead: a paragraph is routed exactly when it finds
\* current_chunk empty and its length plus two exceeds max_chunk_size, so every
\* paragraph shorter than max_chunk_size - 1 is left whole and every first
\* paragraph longer than max_chunk_size is routed
C27_RoutedWhenChunkEmpty ==
    [][C27_AtParagraph =>
          /\ C27_Routed <=> (/\ tr_current = <<>>
                             /\ Len(tr_paragraphs[tr_pi]) + 2 > max_chunk_size)
          /\ Len(tr_paragraphs[tr_pi]) < max_chunk_size - 1 => ~C27_Routed
          /\ (tr_pi = 1 /\ Len(tr_paragraphs[tr_pi]) > max_chunk_size) => C27_Routed]_vars

(***************************************************************************)
(* Claims about the Brand Centre client (checked under SpecClient)         *)
(***************************************************************************)
\* the message the claim prescribes for an answer with an error status
C13_Message(answer) ==
    CASE answer.status_code = 401 -> <<"Authentication with Brand Centre failed">>
      [] answer.status_code = 403 -> <<"Access denied by Brand Centre policies">>
      [] OTHER ->
            <<"Brand Centre error ", Str(answer.status_code), ": ">> \o
                (IF "json" \in DOMAIN answer /\ "detail" \in DOMAIN answer.json
                 THEN answer.json["detail"] ELSE answer.text)

\* fetch_guidelines has ended, for an answer that carries a status
C13_Ended == ap_pc \in {"returned", "raised"} /\ "status_code" \in DOMAIN ap_in.answer

\* C13: fetch_guidelines raises BrandCenterError for every status >= 400 and
\* for no status below 400: 401 with the authentication-failure message, 403
\* with the access-denied message, any other with the status code and the
\* detail of the JSON body or else the raw text.
C13_ErrorsByStatus ==
    C13_Ended =>
        IF ap_in.answer.status_code >= 400
        THEN ap_error = BrandCenterError(C13_Message(ap_in.answer))
        ELSE ap_error = None \/ ap_error.type # "BrandCenterError"

\* (supporting C13) with a session that hands every response back to the
\* client, the errors are the ones the claim prescribes
C13_ErrorsByStatusOfResponse ==
    (C13_Ended /\ ap_in.session = "given") =>
        IF ap_in.answer.status_code >= 400
        THEN ap_error = BrandCenterError(C13_Message(ap_in.answer))
        ELSE ap_error = None \/ ap_error.type # "BrandCenterError"

\* the session handed back a response with a status below 400 whose body is
\* a JSON mapping
C24_Success ==
    /\ ap_response # None
    /\ "status_code" \in DOMAIN ap_response
    /\ ap_response.status_code < 400
    /\ "json" \in DOMAIN ap_response

\* the value the claim prescribes for a field of the result
C24_Field(payload, key) == IF key \in DOMAIN payload THEN payload[key] ELSE <<>>

C14_Extension(name) ==
    CASE name \in {<<"a", ".", "p", "p", "t", "x">>, <<"b", ".", "P", "P", "T", "X">>}
            -> Ext_pptx
      [] name \in {<<"n", ".", "d", "o", "c", "x">>, <<"r", ".", "D", "o", "c", "x">>,
                   <<"c", ".", "d", "o", "c", "x">>}
            -> Ext_docx
      [] name \in {<<"e", ".", "p", "d", "f">>, <<"d", ".", "p", "d", "f">>,
                   <<"m", ".", "p", "d", "f">>}
            -> Ext_pdf
      [] name \in {<<"f", ".", "x", "l", "s", "x">>, <<"q", ".", "x", "l", "s", "x">>}
            -> Ext_xlsx
      [] name = <<"g", ".", "x", "l", "s">> -> Ext_xls
      [] name = <<"h", ".", "t", "x", "t">> -> Ext_txt
      [] OTHER -> <<>>

\* the extractor that matches an extension, Nil for an unsupported one
C14_Extractor(extension) ==
    CASE extension = Ext_pptx -> "pptx"
      [] extension = Ext_docx -> "docx"
      [] extension = Ext_pdf -> "pdf"
      [] extension \in {Ext_xlsx, Ext_xls} -> "excel"
      [] OTHER -> Nil

\* C14: process_file raises FileNotFoundError for a path that does not exist,
\* ValueError for an existing file whose lower-cased extension is none of
\* .pptx, .docx, .pdf, .xlsx, .xls, and otherwise enters exactly the one
\* extractor that matches the extension.
C14_Dispatch ==
    (dp_in # None /\ dp_in.mode = "file" /\ dp_pc # "start") =>
        LET file      == dp_in.files[1]
            extractor == C14_Extractor(C14_Extension(file.name))
        IN  /\ Len(dp_calls) = 1
            /\ IF file.kind = "missing"
               THEN /\ dp_pc = "raised" /\ dp_error = "FileNotFoundError"
                    /\ dp_calls[1].extractor = Nil
               ELSE IF extractor = Nil
               THEN /\ dp_pc = "raised" /\ dp_error = "ValueError"
                    /\ dp_calls[1].extractor = Nil
               ELSE /\ dp_calls[1].extractor = extractor
                    /\ dp_error \notin {"FileNotFoundError", "ValueError"}

\* a file with an upper-case extension went to the slide-deck extractor
C14_Witness ==
    /\ dp_in # None /\ dp_in.mode = "file" /\ dp_pc = "returned"
    /\ dp_in.files[1].name = <<"b", ".", "P", "P", "T", "X">>
    /\ dp_calls[1].extractor = "pptx"
    /\ dp_result.file_type = "pptx"

\* the entries of a listing that process_directory hands to process_file
C15_Recognized(files, extensions) ==
    SelectSeq(files, LAMBDA f : f.kind = "file"
                                  /\ InList(C14_Extension(f.name), extensions))

\* the entries among them that process_file succeeds on
C15_Succeeding(files) ==
    SelectSeq(files, LAMBDA f : ~f.raises /\ C14_Extractor(C14_Extension(f.name)) # Nil)

\* C15: process_directory calls process_file on every file of the directory
\* with a recognized extension, never raises because one of them failed, goes
\* on to the remaining files after a failure, and returns exactly the records
\* of the files that were processed successfully.
C15_DirectoryContinues ==
    (dp_in # None /\ dp_in.mode = "directory") =>
        LET extensions == IF dp_in.extensions = None THEN DefaultExtensions
                          ELSE dp_in.extensions.list
            recognized == C15_Recognized(dp_in.files, extensions)
            succeeding == C15_Succeeding(recognized)
        IN  /\ dp_pc # "raised"
            /\ dp_pc = "returned" =>
                  /\ Map(dp_calls, LAMBDA c : c.name) = Map(recognized, LAMBDA f : f.name)
                  /\ Map(dp_results, LAMBDA r : r.file_name)
                        = Map(succeeding, LAMBDA f : f.name)
                  /\ \A i \in 1 .. Len(dp_results) :
                        dp_results[i] = ProcessFile(succeeding[i]).value

\* a directory whose first file failed and whose second file is in the result
C15_Witness ==
    /\ dp_in # None /\ dp_in.mode = "directory" /\ dp_pc = "returned"
    /\ Len(dp_calls) = 2
    /\ dp_calls[1].raised /\ ~dp_calls[2].raised
    /\ Len(dp_results) = 1
    /\ dp_results[1].file_name = dp_in.files[2].name

\* the per-unit content strings of a record, in order
C17_UnitContents(record) ==
    IF "slides" \in DOMAIN record THEN Map(record.slides, LAMBDA u : u.content)
    ELSE IF "pages" \in DOMAIN record THEN Map(record.pages, LAMBDA u : u.content)
    ELSE IF "sheets" \in DOMAIN record THEN Map(record.sheets, LAMBDA u : u.content)
    ELSE record.paragraphs \o record.tables

\* what may stand between two content strings: nothing, a line break, a blank line
C17_Separators == { <<>>, Newline, ParagraphSep }

\* C17: full_text of every record is its per-unit content strings put
\* together in order.
C17_FullTextIsConcatenation ==
    (dp_in # None /\ dp_in.mode = "file" /\ dp_pc = "returned") =>
        \E sep \in C17_Separators :
            dp_result.full_text = JoinWith(sep, C17_UnitContents(dp_result))

\* (supporting C17) it is so for slide decks and PDFs
C17_DecksAndPdfs ==
    (/\ dp_in # None /\ dp_in.mode = "file" /\ dp_pc = "returned"
     /\ dp_result.file_type \in {"pptx", "pdf"}) =>
        dp_result.full_text = JoinWith(ParagraphSep, C17_UnitContents(dp_result))

(***************************************************************************)
(* Claims about the document ingestion (checked under SpecIngest)          *)
(***************************************************************************)
\* the path of a unit parses
C16_Parses(u) == ~ProcessFile(u.file).raised

\* the document of a unit that parses fails to translate: the backend raises
\* on a text of the document
C16_TranslationFails(u) ==
    /\ ~u.backend_up
    /\ \E i \in 1 .. Len(TranslatedTexts(ProcessFile(u.file).value)) :
          Strip(TranslatedTexts(ProcessFile(u.file).value)[i]) # <<>>

\* the file names of the units of a batch that satisfy Keep
C16_Names(Keep(_)) == Map(SelectSeq(ig_in, Keep), LAMBDA u : u.file.name)

\* C16: when a document of a batch fails to parse or fails to translate, the
\* failure is logged and the batch goes on without it: process_files returns,
\* and the documents handed to guideline extraction and returned in the
\* results are those of the units that neither failed to parse nor failed to
\* translate.
C16_BatchContinuesWithoutFailed ==
    ig_pc = "returned" =>
        /\ \A i \in 1 .. Len(ig_in) :
              /\ ~C16_Parses(ig_in[i]) =>
                    InList(Printed("parse", ig_in[i].file.name), ig_log)
              /\ (C16_Parses(ig_in[i]) /\ C16_TranslationFails(ig_in[i])) =>
                    InList(Printed("translate", ig_in[i].file.name), ig_log)
        /\ IF "error" \in DOMAIN ig_result
           THEN C16_Names(C16_Parses) = <<>>
           ELSE LET kept == C16_Names(LAMBDA u : C16_Parses(u) /\ ~C16_TranslationFails(u))
                IN  /\ Map(ig_extracted.documents, LAMBDA d : d.file_name) = kept
                    /\ Map(ig_result.translated_documents, LAMBDA d : d.file_name) = kept

\* (supporting C16) it is so for the documents that fail to parse: they are
\* logged and left out, and the documents that parsed are all handed on, the
\* untranslated ones as they were parsed
C16_ParseFailuresLeftOut ==
    ig_pc = "returned" =>
        /\ \A i \in 1 .. Len(ig_in) :
              ~C16_Parses(ig_in[i]) =>
                  InList(Printed("parse", ig_in[i].file.name), ig_log)
        /\ IF "error" \in DOMAIN ig_result
           THEN C16_Names(C16_Parses) = <<>>
           ELSE /\ Map(ig_extracted.documents, LAMBDA d : d.file_name)
                      = C16_Names(C16_Parses)
                /\ ig_result.translated_documents = ig_extracted.documents
                /\ ig_result.documents_processed = Len(C16_Names(C16_Parses))
                /\ \A k \in 1 .. Len(ig_documents) :
                      ~BackendUp(k) => ig_extracted.documents[k] = ig_documents[k]

\* the documents process_file returned for the paths of the batch, in order
C22_Parsed ==
    LET parsed == SelectSeq(ig_in, LAMBDA u : ~ProcessFile(u.file).raised)
    IN  [k \in 1 .. Len(parsed) |-> ProcessFile(parsed[k].file).value]

\* the entries under key (slides, pages, sheets) are as many and in the same
\* order, each with its keys and its index or name unchanged and its content
\* replaced by the translation of that content
C22_Units(doc, out, key, ok) ==
    key \in DOMAIN doc =>
        /\ Len(out[key]) = Len(doc[key])
        /\ \A i \in 1 .. Len(doc[key]) :
              /\ DOMAIN out[key][i] = DOMAIN doc[key][i]
              /\ \A field \in DOMAIN doc[key][i] :
                    out[key][i][field] =
                        IF field = "content" THEN TranslateDirect(doc[key][i].content, ok)
                        ELSE doc[key][i][field]

\* the strings under key (paragraphs, tables) are as many and in the same
\* order, each replaced by its translation
C22_Strings(doc, out, key, ok) ==
    key \in DOMAIN doc =>
        /\ Len(out[key]) = Len(doc[key])
        /\ \A i \in 1 .. Len(doc[key]) : out[key][i] = TranslateDirect(doc[key][i], ok)

\* keys, file name, format tag, full text and the slide, page, sheet and
\* paragraph entries of the k-th translated document against its input
C22_Kept(k) ==
    LET doc == ig_documents[k]
        out == ig_translated[k]
        ok  == BackendUp(k)
    IN  /\ DOMAIN out = DOMAIN doc
        /\ out.file_name = doc.file_name
        /\ out.file_type = doc.file_type
        /\ out.full_text = TranslateDirect(doc.full_text, ok)
        /\ \A key \in {"slides", "pages", "sheets"} : C22_Units(doc, out, key, ok)
        /\ C22_Strings(doc, out, "paragraphs", ok)

\* C22: translate_document preserves the structure of the record (same keys,
\* same per-unit entries in the same order with their index or name, same
\* file_name and file_type), replaces full_text and every per-unit content
\* string by its translation, and leaves the input record as it was.
C22_StructurePreserved ==
    ig_pc \in {"translating", "returned"} =>
        /\ ig_documents = C22_Parsed
        /\ \A k \in 1 .. Len(ig_translated) :
              /\ C22_Kept(k)
              /\ C22_Strings(ig_documents[k], ig_translated[k], "tables", BackendUp(k))

\* (supporting C22) all of it holds but for the table strings of a word
\* document, which are handed on as they are
C22_PreservedButTables ==
    ig_pc \in {"translating", "returned"} =>
        /\ ig_documents = C22_Parsed
        /\ \A k \in 1 .. Len(ig_translated) :
              /\ C22_Kept(k)
              /\ "tables" \in DOMAIN ig_documents[k] =>
                    ig_translated[k].tables = ig_documents[k].tables

(***************************************************************************)
(* Claims about the guideline extractor (checked under SpecGuidelines)     *)
(***************************************************************************)
\* what extraction yields for a text with no signal: no keyword of any topic
\* and no match of any pattern
C18_NoSignal == CHOOSE g \in ExtractFromDocuments(<<Greeting>>) : TRUE

\* no document of the batch has text
C18_NoText == \A i \in 1 .. Len(ge_in) : GetOr(ge_in[i], "full_text", <<>>) = <<>>

\* C18: extract_from_documents on an empty document list, and on documents
\* with no full_text, returns a record whose string fields hold the defaults
\* that extraction yields for a text with no signal, and whose list and
\* mapping fields are empty.
C18_EmptyGivesDefaults ==
    (ge_pc = "returned" /\ C18_NoText) =>
        /\ ge_guidelines.brand_name = C18_NoSignal.brand_name
        /\ ge_guidelines.tone_of_voice = C18_NoSignal.tone_of_voice
        /\ ge_guidelines.visual_style = C18_NoSignal.visual_style
        /\ ge_guidelines.compliance_notes = C18_NoSignal.compliance_notes
        /\ ge_guidelines.messaging_principles = <<>>
        /\ ge_guidelines.target_audiences = <<>>
        /\ ge_guidelines.brand_values = <<>>
        /\ ge_guidelines.campaign_themes = <<>>
        /\ ge_guidelines.content_guidelines = <<>>
        /\ ge_guidelines.channel_specific = <<>>

\* (supporting C18) such a call returns the record as it is constructed: the
\* brand name, empty strings, empty lists and an empty mapping
C18_EmptyGivesConstructed ==
    (ge_pc = "returned" /\ C18_NoText) => ge_guidelines = BrandGuidelinesExtracted

\* the contexts of n lines of all the lines that hold a keyword
C19_Snippets(keywords, text, n) ==
    LET lines == SplitLines(text)
    IN  Map(SelectSeq([i \in 1 .. Len(lines) |-> i],
                      LAMBDA i : AnyKeyword(keywords, lines[i])),
            LAMBDA i : Context(lines, i, n))

\* the values the precedence allows: the snippets joined and capped, else the
\* sentences formatted from the hits of the pattern, else the default
C19_Allowed(snippets, cap, sentences, default) ==
    IF snippets # <<>> THEN {JoinWith(<<";", " ">>, Slice(snippets, 0, cap))}
    ELSE IF sentences # {} THEN sentences
    ELSE {default}

\* the sentences formatted from the hits of a pattern
C19_Sentences(prefix, hits) ==
    IF hits = <<>> THEN {} ELSE {prefix \o joined : joined \in JoinedSet(hits)}

\* C19: tone, visual style and compliance follow the precedence: when a line
\* holds a keyword of the topic the result is the contextual snippets joined
\* and capped (3, 2, 2); else when the pattern of the field matches it is the
\* sentence formatted from the hits; else it is the fixed default.
C19_Precedence ==
    (ge_pc = "returned" /\ ge_all_text # <<>>) =>
    /\ ge_guidelines.tone_of_voice \in
          C19_Allowed(C19_Snippets(Keywords.tone, ge_all_text, 3), 3,
                      C19_Sentences(TonePrefix,
                                    Slice(WordHits(ToneDescriptors, Lower(ge_all_text)), 0, 5)),
                      ToneDefault)
    /\ ge_guidelines.visual_style \in
          C19_Allowed(C19_Snippets(Keywords.visual, ge_all_text, 2), 2,
                      C19_Sentences(VisualPrefix,
                                    Slice(WordHits(ColorWords, Lower(ge_all_text)), 0, 3)),
                      VisualDefault)
    /\ ge_guidelines.compliance_notes \in
          C19_Allowed(C19_Snippets(Keywords.compliance, ge_all_text, 3), 2, {},
                      ComplianceDefault)

\* i # j => seq[i] # seq[j]
C20_NoDuplicates(seq) ==
    \A i, j \in 1 .. Len(seq) : i # j => seq[i] # seq[j]

\* C20: the list-valued fields of the record hold no duplicate entries and
\* respect their caps (target_audiences 5, brand_values 6, campaign_themes 8,
\* content_guidelines 5); they are lists, possibly empty, never undefined.
C20_ListsDistinctAndCapped ==
    ge_guidelines # None =>
        /\ {"target_audiences", "brand_values", "campaign_themes", "content_guidelines"}
              \subseteq DOMAIN ge_guidelines
        /\ \A field \in {ge_guidelines.target_audiences, ge_guidelines.brand_values,
                         ge_guidelines.campaign_themes, ge_guidelines.content_guidelines} :
              DOMAIN field = 1 .. Len(field) /\ C20_NoDuplicates(field)
        /\ Len(ge_guidelines.target_audiences) <= 5
        /\ Len(ge_guidelines.brand_values) <= 6
        /\ Len(ge_guidelines.campaign_themes) <= 8
        /\ Len(ge_guidelines.content_guidelines) <= 5

\* a text with seven audiences was extracted: five are kept, no two of them
\* equal, and the audience "Investors" of the text is among those left out
C20_Witness ==
    /\ ge_pc = "returned"
    /\ ge_in = <<Segments>>
    /\ Len(ge_guidelines.target_audiences) = 5
    /\ C20_NoDuplicates(ge_guidelines.target_audiences)
    /\ \A i \in 1 .. 5 :
          ge_guidelines.target_audiences[i]
              # <<"I", "n", "v", "e", "s", "t", "o", "r", "s">>

\* the records a second run on the documents of this run can return
C29_SecondRun == ExtractFromDocuments(ge_in)

\* C29: extraction is a pure function of the documents: the record a run
\* returns is the record every other run on the same documents returns, the
\* kept entries of the list-valued fields and their order included.
C29_ExtractionIsAFunction ==
    ge_pc = "returned" => \A other \in C29_SecondRun : other = ge_guidelines

====
